---------------------------- MODULE Spec2Model ----------------------------
(***************************************************************************)
(* A model of the Freestyle parameter editor                                *)
(* (src/modules/parameter_editor.py) and of the helpers it uses from        *)
(* src/modules/freestyle/utils.py.                                          *)
(*                                                                          *)
(* The module is a collection of small state machines, one per component   *)
(* of the stroke pipeline.  Every component has its own specification       *)
(* (SpecSeed, SpecController, ...) that moves only that component's        *)
(* variables; the variables of the other components stay at their idle      *)
(* values.                                                                  *)
(***************************************************************************)
EXTENDS Integers, Sequences, FiniteSets, TLC

VARIABLES
    \* ---- Seed (parameter_editor.py 878-889) ----
    seed,          \* the module-level _seed object: [t |-> counter]
    seed_op,       \* "none" before any Seed.get call, "get" after
    seed_arg,      \* argument of the last Seed.get call
    seed_ret,      \* value returned by the last Seed.get call
    seed_negs,     \* number of Seed.get calls with a negative argument so far
    seed_tag,      \* value handed to one remembered negative-seed call (-1: none)
    seed_tagAt,    \* seed_negs at the time of the remembered call (0: none)
    \* ---- SplitPatternController (parameter_editor.py 678-711) ----
    controller,    \* the controller object's fields
    ctl_op,        \* last method called: "none", "start", "stop"
    ctl_ret,       \* its return value
    ctl_pattern,   \* the pattern the controller was built from
    ctl_starts,    \* number of start() calls so far
    ctl_stops,     \* number of stop() calls so far
    \* ---- Length2DThresholdUP0D under sequential_split (859-873, 1004-1005) ----
    threshold,     \* the predicate object: [length_limit2, t]
    walk,          \* the chain being visited and what the split has done to it
    \* ---- MaterialBoundaryUP0D (826-841) ----
    mb_chain,      \* the chain's feature edges, in order (edge k joins vertex k-1 and k)
    mb_at,         \* the vertex the predicate was last called at (-1: not yet)
    mb_ret,        \* its answer
    mb_exc,        \* the exception that escaped the call ("none": it returned)
    \* ---- ScalarBlendModifier.blend (126-153) ----
    bl_in,         \* the modifier's blend and influence, and the arguments v1, v2
    bl_out,        \* [done, exc, value]: what blend(v1, v2) did
    \* ---- thickness modifiers (174-220, 271-286) ----
    th_shader,     \* the modifier: position, ratio, blend, influence, persp_camera
    th_vert,       \* the stroke vertex: attribute.thickness and its feature edge
    th_raw,        \* the raw thickness b the modifier computed for the vertex
    th_log,        \* [done, exc, old, split]: what shading the vertex did
    \* ---- selection of feature edges in process (908-982) ----
    lineset,       \* the lineset's selection settings
    curve,         \* a ViewEdge of the view map
    sel_out,       \* [done, exc, accepted]: what selecting the curve did
    \* ---- the shader list of process and Operators.create (1038-1191) ----
    linestyle,     \* the linestyle's settings
    chains,        \* number of chains Operators.create makes strokes of
    pc,            \* "start", "create", "shade", "done" or "raised"
    shaders_list,  \* the shaders appended so far, in order
    proc_exc,      \* the exception process ended with, or "none"
    stroke_no,     \* strokes created so far
    applied,       \* shaders of the list that have shaded the current stroke
    shaded,        \* shade() calls completed, over all strokes
    seed_calls,    \* the _seed.get calls process has made: [who, arg] each
    positions_passed, \* the thickness positions handed to the thickness shaders' constructors
    \* ---- iter_distance_from_camera / iter_distance_from_object (utils.py 154-182) ----
    dist_in,       \* [fn, range_min, range_max, stroke]: stroke is the vertices' distances
    dist_out,      \* the values the generator has yielded so far: [exc, value] each
    \* ---- bound (utils.py 48-53) ----
    bd_in,         \* [lower, x, higher]: the arguments of a call of bound
    bd_out,        \* [done, value]: what the call returned
    \* ---- stroke_curvature (utils.py 232-261) ----
    cv_it,         \* the iterator: [is_begin, is_end, prev, current, next] (2D points)
    cv_out,        \* [done, value]: what the call returned
    \* ---- get_chain_length (utils.py 81-113) ----
    gcl_chain,     \* [lens, cyclic]: length_2d of the chain's curves in order; closed or open
    gcl_arg,       \* [ve, orientation]: the arguments (ve is a position in the chain)
    gcl_it,        \* the iterator _it: [begin, current_edge, orientation] (0 is no edge)
    gcl_length,    \* the local variable length
    gcl_pc,        \* "forward", "reset", "backward" or "done"
    \* ---- DashedLineShader.shade (parameter_editor.py 716-739) ----
    dl_self,        \* the shader object: [pattern]
    dl_n,           \* number of vertices of the stroke resampled at 1.0
    dl_k,           \* vertices the loop has handled
    dl_start,       \* local start
    dl_visible,     \* local visible
    dl_attr,        \* attribute.visible of the stroke's vertices
    \* ---- FaceMarkBothUP1D, FaceMarkOneUP1D (parameter_editor.py 791-821) ----
    fm_inter,       \* the ViewEdge: [fedges], its feature edges from first_fedge on
    fm_both,        \* what FaceMarkBothUP1D()(inter) gave: "none", "T", "F" or an exception
    fm_one,         \* what FaceMarkOneUP1D()(inter) gave
    \* ---- the shaders of one list shading the strokes (parameter_editor.py 246-248, 721-739) ----
    sh_shaders,     \* the shader objects of shaders_list: [kind, outer, inner, persp_camera, pattern]
    sh_seed,        \* the Seed object _seed
    sh_strokes,     \* the strokes: [fes, thickness, visible], one entry per vertex
    sh_stage,       \* per stroke, how many shaders of the list have shaded it
    \* ---- Transform2DShader.shade with pivot PARAM (parameter_editor.py 600-628) ----
    tf_self,        \* the shader object: [pivot, pivot_u, scale]
    tf_stroke,      \* the vertices of the stroke handed to shade(): [u, point] each
    tf_out,         \* [done, exc, pivot, points]: how shade() ended, its pivot, the points afterwards
    \* ---- one predicate of a SplitPatternController called again and again (parameter_editor.py 660-711) ----
    rp_controller,  \* the SplitPatternController
    rp_kind,        \* "stop" or "start": the method that is called
    rp_ret,         \* what the last call returned
    rp_calls,       \* calls made
    \* ---- one Length2DThresholdUP0D over several chains, beside a new one per chain (parameter_editor.py 859-873) ----
    tw_used,        \* the instance process built, called on every chain
    tw_fresh,       \* an instance constructed when the current chain began
    tw_walk,        \* [chain, len, t]: the chain's number, its samples, the sample reached
    tw_ret,         \* [used, fresh]: the two answers at the sample reached
    \* ---- a SplitPatternController driven by sequential splitting (parameter_editor.py 660-711) ----
    dr_controller,  \* the SplitPatternController
    dr_phase,       \* "stop" or "start": the predicate the split calls next
    dr_new,         \* TRUE when the next call is the first stop() of a chain
    dr_chain,       \* number of the chain being split
    dr_calls        \* calls made on the current chain

seedVars == <<seed, seed_op, seed_arg, seed_ret, seed_negs, seed_tag, seed_tagAt>>
ctlVars  == <<controller, ctl_op, ctl_ret, ctl_pattern, ctl_starts, ctl_stops>>
lenVars  == <<threshold, walk>>
mbVars   == <<mb_chain, mb_at, mb_ret, mb_exc>>
blVars   == <<bl_in, bl_out>>
thVars   == <<th_shader, th_vert, th_raw, th_log>>
selVars  == <<lineset, curve, sel_out>>
procVars == <<linestyle, chains, pc, shaders_list, proc_exc, stroke_no, applied, shaded,
             seed_calls, positions_passed>>
distVars == <<dist_in, dist_out>>
bdVars == <<bd_in, bd_out>>
cvVars == <<cv_it, cv_out>>
gclVars == <<gcl_chain, gcl_arg, gcl_it, gcl_length, gcl_pc>>
dlVars == <<dl_self, dl_n, dl_k, dl_start, dl_visible, dl_attr>>
fmVars == <<fm_inter, fm_both, fm_one>>
shVars == <<sh_shaders, sh_seed, sh_strokes, sh_stage>>
tfVars == <<tf_self, tf_stroke, tf_out>>
rpVars == <<rp_controller, rp_kind, rp_ret, rp_calls>>
twVars == <<tw_used, tw_fresh, tw_walk, tw_ret>>
drVars == <<dr_controller, dr_phase, dr_new, dr_chain, dr_calls>>
vars     == <<seedVars, ctlVars, lenVars, mbVars, blVars, thVars, selVars, procVars, distVars, bdVars, cvVars, gclVars, dlVars, fmVars, shVars, tfVars, rpVars, twVars, drVars>>

Abs(x) == IF x < 0 THEN -x ELSE x

(***************************************************************************)
(* Seed                                                                     *)
(***************************************************************************)

\* self.t_max = 2 ** 15
t_max == 32768

\* Wall-clock values at import time, reduced modulo t_max by Seed.__init__.
SeedClocks == {5, 1730000000, 32766}

\* Seeds a modifier can be configured with (m.seed); negative is the default.
SeedArgs == {-1, 0, 5}

\* At most this many negative-seed calls are explored.
MaxNegGets == 32771

\* The remembered call is one of the first MaxTagDelay negative-seed calls.
MaxTagDelay == 2

\* Seed.__init__
Seed_init(clock) == [t |-> clock % t_max]

\* The counter after Seed.get(s).
Seed_get_t_stuck(sd, s) == sd.t
Seed_get_t_nowrap(sd, s) == IF s < 0 THEN sd.t + 1 ELSE sd.t
Seed_get_t(sd, s) == IF s < 0 THEN (sd.t + 1) % t_max ELSE sd.t

\* The value Seed.get(s) returns.
Seed_get_ret(sd, s) == IF s < 0 THEN Seed_get_t(sd, s) ELSE s

SeedIdle ==
    /\ seed = [t |-> 0]
    /\ seed_op = "none"
    /\ seed_arg = 0
    /\ seed_ret = 0
    /\ seed_negs = 0
    /\ seed_tag = -1
    /\ seed_tagAt = 0

SeedInit ==
    /\ \E clock \in SeedClocks : seed = Seed_init(clock)
    /\ seed_op = "none"
    /\ seed_arg = 0
    /\ seed_ret = 0
    /\ seed_negs = 0
    /\ seed_tag = -1
    /\ seed_tagAt = 0

\* One call _seed.get(s); a negative-seed call may become the remembered one.
Get(s, remember) ==
    /\ s < 0 => seed_negs < MaxNegGets
    /\ seed' = [seed EXCEPT !.t = Seed_get_t(seed, s)]
    /\ seed_op' = "get"
    /\ seed_arg' = s
    /\ seed_ret' = Seed_get_ret(seed, s)
    /\ seed_negs' = IF s < 0 THEN seed_negs + 1 ELSE seed_negs
    /\ IF remember
         THEN /\ s < 0
              /\ seed_tagAt = 0
              /\ seed_negs < MaxTagDelay
              /\ seed_tag' = Seed_get_ret(seed, s)
              /\ seed_tagAt' = seed_negs + 1
         ELSE UNCHANGED <<seed_tag, seed_tagAt>>

SeedGet == \E s \in SeedArgs : \E remember \in BOOLEAN : Get(s, remember)

(***************************************************************************)
(* SplitPatternController                                                   *)
(***************************************************************************)

\* sampling = 1.0 (process); lengths are counted in sampling steps.
Sampling == 1

\* At most this many start()/stop() calls are explored.
MaxCalls == 46

\* freestyle.utils.pairwise: the pairs of neighbours of a sequence.
pairwise(s) == [i \in 1..(Len(s) - 1) |-> <<s[i], s[i + 1]>>]

\* process: the pattern built from the three dash/gap pairs of the linestyle.
Pair(d, g) == IF d > 0 /\ g > 0 THEN <<d, g>> ELSE <<>>
SplitPattern(ls) ==
    Pair(ls[1], ls[2]) \o Pair(ls[3], ls[4]) \o Pair(ls[5], ls[6])

\* Linestyle settings <<split_dash1, split_gap1, ..., split_gap3>>.
SplitSettings ==
    { <<10, 5, 0, 0, 0, 0>>, <<2, 1, 0, 0, 0, 0>>, <<0, 3, 1, 2, 0, 0>>,
      <<2, 1, 3, 2, 0, 0>>, <<1, 2, 2, 1, 3, 1>> }

\* SplitPatternController.init
Controller_init(c) ==
    [c EXCEPT !.start_len = 0, !.start_idx = 0,
              !.stop_len = c.sampling, !.stop_idx = 0]

\* SplitPatternController.__init__
Controller_new(pattern, sampling) ==
    Controller_init(
        [sampling  |-> sampling,
         start_pos |-> [i \in DOMAIN pairwise(pattern) |->
                            pairwise(pattern)[i][1] + pairwise(pattern)[i][2]],
         stop_pos  |-> [i \in DOMAIN pairwise(pattern) |-> pairwise(pattern)[i][1]],
         start_len |-> 0, start_idx |-> 0, stop_len |-> 0, stop_idx |-> 0])

\* abs(len - pos) < sampling / 2.0
Near(len, pos, sampling) == 2 * Abs(len - pos) < sampling

\* The controller after start(), and what start() returns.
start_hit(c) ==
    Near(c.start_len + c.sampling, c.start_pos[c.start_idx + 1], c.sampling)
start_after_noreset(c) ==
    IF start_hit(c)
      THEN [c EXCEPT !.start_len = c.start_len + c.sampling,
                     !.start_idx = (c.start_idx + 1) % Len(c.start_pos)]
      ELSE [c EXCEPT !.start_len = c.start_len + c.sampling]
start_after(c) ==
    IF start_hit(c)
      THEN [c EXCEPT !.start_len = 0,
                     !.start_idx = (c.start_idx + 1) % Len(c.start_pos)]
      ELSE [c EXCEPT !.start_len = c.start_len + c.sampling]

\* The controller after stop(), and what stop() returns.
stop_reset(c) == IF c.start_len > 0 THEN Controller_init(c) ELSE c
stop_hit(c) ==
    Near(stop_reset(c).stop_len + c.sampling,
         c.stop_pos[stop_reset(c).stop_idx + 1], c.sampling)
stop_after(c) ==
    IF stop_hit(c)
      THEN [stop_reset(c) EXCEPT !.stop_len = c.sampling,
                !.stop_idx = (stop_reset(c).stop_idx + 1) % Len(c.stop_pos)]
      ELSE [stop_reset(c) EXCEPT !.stop_len = stop_reset(c).stop_len + c.sampling]

CtlIdle ==
    /\ controller = "none"
    /\ ctl_pattern = <<>>
    /\ ctl_op = "none"
    /\ ctl_ret = FALSE
    /\ ctl_starts = 0
    /\ ctl_stops = 0

CtlInit ==
    /\ \E ls \in SplitSettings :
          /\ Len(SplitPattern(ls)) > 0
          /\ controller = Controller_new(SplitPattern(ls), Sampling)
          /\ ctl_pattern = SplitPattern(ls)
    /\ ctl_op = "none"
    /\ ctl_ret = FALSE
    /\ ctl_starts = 0
    /\ ctl_stops = 0

\* SplitPatternStartingUP0D.__call__
Start ==
    /\ ctl_starts + ctl_stops < MaxCalls
    /\ controller' = start_after(controller)
    /\ ctl_ret' = start_hit(controller)
    /\ ctl_op' = "start"
    /\ ctl_starts' = ctl_starts + 1
    /\ UNCHANGED <<ctl_pattern, ctl_stops>>

\* SplitPatternStoppingUP0D.__call__
Stop ==
    /\ ctl_starts + ctl_stops < MaxCalls
    /\ controller' = stop_after(controller)
    /\ ctl_ret' = stop_hit(controller)
    /\ ctl_op' = "stop"
    /\ ctl_stops' = ctl_stops + 1
    /\ UNCHANGED <<ctl_pattern, ctl_starts>>

(***************************************************************************)
(* Length2DThresholdUP0D, driven by Operators.sequential_split(pred, 1.0)   *)
(*                                                                          *)
(* Lengths are counted in units of 1/Step of the sampling step 1.0.  The    *)
(* limit is kept doubled (length_limit2 = 2 * length_limit), so that half   *)
(* of an odd chain length is a limit too.                                   *)
(***************************************************************************)

\* Units per sampling step (the 1.0 handed to sequential_split).
Step == 4

\* Longest chain, in units, and the number of chains one predicate visits.
MaxChainLen == 12
MaxChains == 2

\* Length2DThresholdUP0D.__init__
Length2D_new(limit2) == [length_limit2 |-> limit2, t |-> 0]

\* Length2DThresholdUP0D.__call__ at curvilinear abscissa t: its answer ...
Length2D_ret_strict(p, t) ==
    IF t < p.t THEN FALSE
    ELSE IF 2 * (t - p.t) <= p.length_limit2 THEN FALSE
    ELSE TRUE
Length2D_ret(p, t) ==
    IF t < p.t THEN FALSE
    ELSE IF 2 * (t - p.t) < p.length_limit2 THEN FALSE
    ELSE TRUE

\* ... and the object after the call.
Length2D_after_norecord(p, t) == IF t < p.t THEN [p EXCEPT !.t = 0] ELSE p
Length2D_after(p, t) ==
    IF t < p.t THEN [p EXCEPT !.t = 0]
    ELSE IF 2 * (t - p.t) < p.length_limit2 THEN p
    ELSE [p EXCEPT !.t = t]

\* A chain handed to the split: its 2D length; the visit starts at its first
\* point (t = 0), where the predicate is not called.
NewWalk(len, no) ==
    [len |-> len, t |-> 0, breaks |-> 0, chain |-> no, ret |-> FALSE, done |-> FALSE]

\* The chains: three curves of at least one unit each, joined end to end.
ChainLens == { l1 + l2 + l3 : l1, l2, l3 \in 1..(MaxChainLen - 2) } \cap 3..MaxChainLen

LenIdle ==
    /\ threshold = Length2D_new(0)
    /\ walk = NewWalk(0, 0)

\* process: Operators.sequential_split(Length2DThresholdUP0D(split_length), 1.0)
LenInit ==
    /\ \E limit2 \in 1..MaxChainLen : threshold = Length2D_new(limit2)
    /\ \E len \in ChainLens : walk = NewWalk(len, 1)

\* The split visits the next point of the chain, at most one sampling step
\* further on (the last point is the chain's end), calls the predicate there
\* and breaks the chain if it answers true anywhere but at the last point.
Visit(gap) ==
    LET t == IF walk.t + gap < walk.len THEN walk.t + gap ELSE walk.len
        r == Length2D_ret(threshold, t)
    IN  /\ ~walk.done
        /\ threshold' = Length2D_after(threshold, t)
        /\ walk' = [walk EXCEPT !.t = t, !.ret = r,
                                !.breaks = IF r /\ t # walk.len THEN @ + 1 ELSE @,
                                !.done = (t = walk.len)]

VisitPoint == \E gap \in 1..Step : Visit(gap)

\* The split goes on to the next chain of the working set, with the same
\* predicate object.
NextChain ==
    /\ walk.done
    /\ walk.chain < MaxChains
    /\ \E len \in ChainLens : walk' = NewWalk(len, walk.chain + 1)
    /\ UNCHANGED threshold

(***************************************************************************)
(* MaterialBoundaryUP0D                                                     *)
(*                                                                          *)
(* A chain of N feature edges has the vertices 0..N; edge k joins the       *)
(* vertices k-1 and k.  An Interface0DIterator is a position in 0..N.       *)
(***************************************************************************)

\* Longest chain, in feature edges.
MaxEdges == 4

MaterialIndices == 0..1

FEdges ==
    [is_smooth : BOOLEAN, material_index : MaterialIndices,
     material_index_left : MaterialIndices]

Chains == UNION { [1..n -> FEdges] : n \in 1..MaxEdges }

\* Iterator.decrement(): RuntimeError at the first vertex.
it_decrement(pos) ==
    IF pos = 0 THEN [exc |-> "RuntimeError", pos |-> pos]
    ELSE [exc |-> "none", pos |-> pos - 1]

\* next(it): moves on and returns the vertex reached; StopIteration when the
\* iterator is at the last vertex.
it_next(pos, n) ==
    IF pos >= n THEN [exc |-> "StopIteration", pos |-> pos]
    ELSE [exc |-> "none", pos |-> pos + 1]

\* SVertex.get_fedge: the edge between two neighbouring vertices.
get_fedge(chain, a, b) == chain[IF a > b THEN a ELSE b]

\* fe.material_index if fe.is_smooth else fe.material_index_left
fedge_material(fe) ==
    IF fe.is_smooth THEN fe.material_index ELSE fe.material_index_left

\* except (RuntimeError, StopIteration): return False
MB_caught_onlyRuntime == {"RuntimeError"}
MB_caught == {"RuntimeError", "StopIteration"}
MB_except(exc) ==
    [ret |-> FALSE, exc |-> IF exc \in MB_caught THEN "none" ELSE exc]

\* MaterialBoundaryUP0D.__call__ with the iterator at vertex i.
MaterialBoundary_call(chain, i) ==
    LET n == Len(chain)
        d == it_decrement(i)
        s1 == it_next(d.pos, n)
        s2 == it_next(s1.pos, n)
        prev == d.pos
        svert == s1.pos
        succ == s2.pos
    IN  IF d.exc # "none" THEN MB_except(d.exc)
        ELSE IF s1.exc # "none" THEN MB_except(s1.exc)
        ELSE IF s2.exc # "none" THEN MB_except(s2.exc)
        ELSE [ret |-> fedge_material(get_fedge(chain, svert, prev))
                        # fedge_material(get_fedge(chain, svert, succ)),
              exc |-> "none"]

MbIdle ==
    /\ mb_chain = <<>>
    /\ mb_at = -1
    /\ mb_ret = FALSE
    /\ mb_exc = "none"

MbInit ==
    /\ mb_chain \in Chains
    /\ mb_at = -1
    /\ mb_ret = FALSE
    /\ mb_exc = "none"

\* The predicate is evaluated at vertex i of the chain.
MbCall(i) ==
    /\ mb_at' = i
    /\ mb_ret' = MaterialBoundary_call(mb_chain, i).ret
    /\ mb_exc' = MaterialBoundary_call(mb_chain, i).exc
    /\ UNCHANGED mb_chain

MbCallAny == \E i \in 0..Len(mb_chain) : MbCall(i)

(***************************************************************************)
(* ScalarBlendModifier.blend                                                *)
(*                                                                          *)
(* Python floats are modelled by exact rationals <<numerator, denominator>> *)
(* with a positive denominator, kept in lowest terms.                       *)
(***************************************************************************)

RECURSIVE Gcd(_, _)
Gcd(a, b) == IF b = 0 THEN a ELSE Gcd(b, a % b)

Rat(n, d) ==
    LET g == Gcd(Abs(n), Abs(d))
        sg == IF d < 0 THEN -1 ELSE 1
    IN  <<(sg * n) \div g, (sg * d) \div g>>

RAdd(a, b) == Rat(a[1] * b[2] + b[1] * a[2], a[2] * b[2])
RSub(a, b) == Rat(a[1] * b[2] - b[1] * a[2], a[2] * b[2])
RMul(a, b) == Rat(a[1] * b[1], a[2] * b[2])
RDiv(a, b) == Rat(a[1] * b[2], a[2] * b[1])
RAbs(a)    == <<Abs(a[1]), a[2]>>
RLess(a, b) == a[1] * b[2] < b[1] * a[2]
\* Python's min(a, b) and max(a, b) return a unless b is strictly better.
RMin(a, b) == IF RLess(b, a) THEN b ELSE a
RMax(a, b) == IF RLess(a, b) THEN b ELSE a
Zero == <<0, 1>>
One  == <<1, 1>>

Blends ==
    {"MIX", "ADD", "MULTIPLY", "SUBTRACT", "DIVIDE", "DIFFERENCE", "MININUM", "MAXIMUM"}

\* v1 = facm * v1 + fac * v2
blend_MIX_swapped(fac, facm, v1, v2) == RAdd(RMul(fac, v1), RMul(facm, v2))
blend_MIX(fac, facm, v1, v2) == RAdd(RMul(facm, v1), RMul(fac, v2))

\* v1 *= facm + fac * v2
blend_MULTIPLY_noFacm(fac, facm, v1, v2) == RMul(v1, RAdd(One, RMul(fac, v2)))
blend_MULTIPLY(fac, facm, v1, v2) == RMul(v1, RAdd(facm, RMul(fac, v2)))

\* ScalarBlendModifier.blend(v1, v2) of a modifier built with (mode, fac).
blend(mode, fac, v1, v2) ==
    LET facm == RSub(One, fac)
        ok(v) == [exc |-> "none", value |-> v]
    IN  IF mode = "MIX" THEN ok(blend_MIX(fac, facm, v1, v2))
        ELSE IF mode = "ADD" THEN ok(RAdd(v1, RMul(fac, v2)))
        ELSE IF mode = "MULTIPLY" THEN ok(blend_MULTIPLY(fac, facm, v1, v2))
        ELSE IF mode = "SUBTRACT" THEN ok(RSub(v1, RMul(fac, v2)))
        ELSE IF mode = "DIVIDE" THEN
            ok(IF v2 # Zero
                 THEN RAdd(RMul(facm, v1), RDiv(RMul(fac, v1), v2))
                 ELSE v1)
        ELSE IF mode = "DIFFERENCE" THEN
            ok(RAdd(RMul(facm, v1), RMul(fac, RAbs(RSub(v1, v2)))))
        ELSE IF mode = "MININUM" THEN ok(RMin(RMul(fac, v2), v1))
        ELSE IF mode = "MAXIMUM" THEN ok(RMax(RMul(fac, v2), v1))
        ELSE [exc |-> "ValueError", value |-> v1]

\* Values the blend is tried on.
BlendValues == { <<-3, 2>>, Zero, <<1, 2>>, One, <<2, 1>> }
Influences == { Zero, <<1, 4>>, One }

BlIdle ==
    /\ bl_in = [blend |-> "MIX", influence |-> Zero, v1 |-> Zero, v2 |-> Zero]
    /\ bl_out = [done |-> FALSE, exc |-> "none", value |-> Zero]

BlInit ==
    /\ bl_in \in [blend : Blends \cup {"BOGUS"}, influence : Influences,
                   v1 : BlendValues, v2 : BlendValues]
    /\ bl_out = [done |-> FALSE, exc |-> "none", value |-> Zero]

\* A shader calls self.blend(v1, v2).
Blend ==
    /\ ~bl_out.done
    /\ bl_out' = [done  |-> TRUE,
                  exc   |-> blend(bl_in.blend, bl_in.influence, bl_in.v1, bl_in.v2).exc,
                  value |-> blend(bl_in.blend, bl_in.influence, bl_in.v1, bl_in.v2).value]
    /\ UNCHANGED bl_in

(***************************************************************************)
(* Thickness modifiers: ThicknessBlenderMixIn and ThicknessModifierMixIn    *)
(***************************************************************************)

Positions == {"CENTER", "INSIDE", "OUTSIDE", "RELATIVE"}
Half == <<1, 2>>
Two == <<2, 1>>

\* ThicknessBlenderMixIn.blend_thickness, after v = self.blend(outer + inner, v):
\* the (outer, inner) pair of the position policy.
split_thickness_copied(position, ratio, v) ==
    IF position = "CENTER" THEN [exc |-> "none", pair |-> <<RMul(v, Half), RMul(v, Half)>>]
    ELSE IF position = "INSIDE" THEN [exc |-> "none", pair |-> <<Zero, v>>]
    ELSE IF position = "OUTSIDE" THEN [exc |-> "none", pair |-> <<v, Zero>>]
    ELSE IF position = "RELATIVE" THEN
        [exc |-> "none", pair |-> <<RMul(v, ratio), RMul(v, ratio)>>]
    ELSE [exc |-> "ValueError", pair |-> <<Zero, Zero>>]
split_thickness(position, ratio, v) ==
    IF position = "CENTER" THEN
        [exc |-> "none", pair |-> <<RMul(v, Half), RSub(v, RMul(v, Half))>>]
    ELSE IF position = "INSIDE" THEN [exc |-> "none", pair |-> <<Zero, v>>]
    ELSE IF position = "OUTSIDE" THEN [exc |-> "none", pair |-> <<v, Zero>>]
    ELSE IF position = "RELATIVE" THEN
        [exc |-> "none", pair |-> <<RMul(v, ratio), RSub(v, RMul(v, ratio))>>]
    ELSE [exc |-> "ValueError", pair |-> <<Zero, Zero>>]

\* ThicknessBlenderMixIn.blend_thickness(outer, inner, v)
blend_thickness(sh, outer, inner, v) ==
    LET b == blend(sh.blend, sh.influence, RAdd(outer, inner), v)
    IN  IF b.exc # "none" THEN [exc |-> b.exc, pair |-> <<Zero, Zero>>]
        ELSE split_thickness(sh.position, sh.ratio, b.value)

\* ThicknessModifierMixIn.set_thickness: the pair stored on the vertex.
set_thickness_silhouetteFirst(sh, fe, outer, inner) ==
    IF fe.silhouette THEN
        IF fe.is_smooth THEN <<inner, outer>> ELSE <<outer, inner>>
    ELSE IF fe.border THEN
        LET dir == IF sh.persp_camera THEN fe.view_dot ELSE fe.normal_left_z
        IN  IF dir < 0 THEN <<inner, outer>> ELSE <<outer, inner>>
    ELSE <<RDiv(RAdd(outer, inner), Two), RDiv(RAdd(outer, inner), Two)>>
set_thickness(sh, fe, outer, inner) ==
    IF fe.border THEN
        LET dir == IF sh.persp_camera THEN fe.view_dot ELSE fe.normal_left_z
        IN  IF dir < 0 THEN <<inner, outer>> ELSE <<outer, inner>>
    ELSE IF fe.silhouette THEN
        IF fe.is_smooth THEN <<inner, outer>> ELSE <<outer, inner>>
    ELSE <<RDiv(RAdd(outer, inner), Two), RDiv(RAdd(outer, inner), Two)>>

\* Feature edges as set_thickness reads them: the BORDER and SILHOUETTE bits
\* of fe.nature, fe.is_smooth, the sign of -sv.point_3d.normalized() . normal_left
\* and the sign of normal_left.z.
ThicknessEdges ==
    [border : BOOLEAN, silhouette : BOOLEAN, is_smooth : BOOLEAN,
     view_dot : {-1, 1}, normal_left_z : {-1, 1}]

ThicknessShaders ==
    [position : Positions \cup {"BOGUS"}, ratio : {Zero, <<1, 4>>, One},
     blend : {"MIX", "MULTIPLY", "DIVIDE", "BOGUS"}, influence : {<<1, 4>>, One},
     persp_camera : BOOLEAN]

ThIdle ==
    /\ th_shader = [position |-> "CENTER", ratio |-> Zero, blend |-> "MIX",
                    influence |-> Zero, persp_camera |-> FALSE]
    /\ th_vert = [thickness |-> <<Zero, Zero>>,
                  fe |-> [border |-> FALSE, silhouette |-> FALSE, is_smooth |-> FALSE,
                          view_dot |-> 1, normal_left_z |-> 1]]
    /\ th_raw = Zero
    /\ th_log = [done |-> FALSE, exc |-> "none", old |-> <<Zero, Zero>>,
                 split |-> <<Zero, Zero>>]

ThInit ==
    /\ th_shader \in ThicknessShaders
    /\ th_vert \in [thickness : {Zero, One} \X {Zero, <<3, 2>>}, fe : ThicknessEdges]
    /\ th_raw \in {Zero, Half, Two}
    /\ th_log = [done |-> FALSE, exc |-> "none", old |-> <<Zero, Zero>>,
                 split |-> <<Zero, Zero>>]

\* The body of a thickness modifier's shade loop for one vertex:
\*   (R, L) = svert.attribute.thickness
\*   (R, L) = self.blend_thickness(R, L, b)
\*   self.set_thickness(svert, R, L)
ShadeThickness ==
    LET R == th_vert.thickness[1]
        L == th_vert.thickness[2]
        bt == blend_thickness(th_shader, R, L, th_raw)
    IN  /\ ~th_log.done
        /\ th_log' = [done |-> TRUE, exc |-> bt.exc, old |-> th_vert.thickness,
                      split |-> bt.pair]
        /\ th_vert' = IF bt.exc # "none" THEN th_vert
                      ELSE [th_vert EXCEPT !.thickness =
                               set_thickness(th_shader, th_vert.fe, bt.pair[1], bt.pair[2])]
        /\ UNCHANGED <<th_shader, th_raw>>

(***************************************************************************)
(* Selection of feature edges (process, first part)                         *)
(*                                                                          *)
(* A predicate object is a record [op, ...]; calling it on a curve gives    *)
(* "T", "F" or the name of the exception the call raised.                   *)
(***************************************************************************)

\* The edge types in the order process tests them.
EdgeTypeOrder ==
    <<"SILHOUETTE", "BORDER", "CREASE", "RIDGE", "SUGGESTIVE_CONTOUR",
      "MATERIAL_BOUNDARY", "EDGE_MARK", "CONTOUR", "EXTERNAL_CONTOUR">>

Truth(b) == IF b THEN "T" ELSE "F"

\* FaceMarkOneUP1D.__call__
FaceMarkOne_call(c) ==
    Truth(\E k \in 1..Len(c.fedges) :
            LET fe == c.fedges[k]
            IN  IF fe.is_smooth THEN fe.face_mark
                ELSE IF fe.border THEN fe.face_mark_left
                ELSE fe.face_mark_right \/ fe.face_mark_left)

\* FaceMarkBothUP1D.__call__: its loop reads the local fe, which nothing
\* has assigned.
FaceMarkBoth_call(c) == "UnboundLocalError"

RECURSIVE Call(_, _), AllOf(_, _, _), AnyOf(_, _, _)

\* all(pred(inter) for pred in predicates), from the k-th predicate on
AllOf(preds, k, c) ==
    IF k > Len(preds) THEN "T"
    ELSE LET r == Call(preds[k], c)
         IN  IF r = "T" THEN AllOf(preds, k + 1, c) ELSE r

\* any(pred(inter) for pred in predicates), from the k-th predicate on
AnyOf(preds, k, c) ==
    IF k > Len(preds) THEN "F"
    ELSE LET r == Call(preds[k], c)
         IN  IF r = "F" THEN AnyOf(preds, k + 1, c) ELSE r

\* upred(curve)
Call(p, c) ==
    CASE p.op = "TrueUP1D" -> "T"
      [] p.op = "QuantitativeInvisibilityUP1D" -> Truth(c.qi = p.qi)
      [] p.op = "QuantitativeInvisibilityRangeUP1D" ->
            Truth(p.qi_start <= c.qi /\ c.qi <= p.qi_end)
      [] p.op = "pyNatureUP1D" -> Truth(p.nature \in c.types)
      [] p.op = "FaceMarkBothUP1D" -> FaceMarkBoth_call(c)
      [] p.op = "FaceMarkOneUP1D" -> FaceMarkOne_call(c)
      [] p.op = "ObjectNamesUP1D" ->
            Truth(IF p.negative THEN c.name \notin p.names ELSE c.name \in p.names)
      [] p.op = "WithinImageBoundaryUP1D" -> Truth(c.within_border)
      [] p.op = "NotUP1D" ->
            LET r == Call(p.arg, c)
            IN  IF r = "T" THEN "F" ELSE IF r = "F" THEN "T" ELSE r
      [] p.op = "AndUP1D" -> AllOf(p.args, 1, c)
      [] p.op = "OrUP1D" -> AnyOf(p.args, 1, c)

NotUP1D(p)  == [op |-> "NotUP1D", arg |-> p]
AndUP1D(ps) == [op |-> "AndUP1D", args |-> ps]
OrUP1D(ps)  == [op |-> "OrUP1D", args |-> ps]
QuantitativeInvisibilityUP1D(qi) == [op |-> "QuantitativeInvisibilityUP1D", qi |-> qi]

\* process: selection criteria by visibility
VisibilityCriteria_unguarded(ls) ==
    IF ls.visibility = "VISIBLE" THEN <<QuantitativeInvisibilityUP1D(0)>>
    ELSE IF ls.visibility = "HIDDEN" THEN <<NotUP1D(QuantitativeInvisibilityUP1D(0))>>
    ELSE <<[op |-> "QuantitativeInvisibilityRangeUP1D",
            qi_start |-> ls.qi_start, qi_end |-> ls.qi_end]>>
VisibilityCriteria(ls) ==
    IF ~ls.select_by_visibility THEN <<>>
    ELSE IF ls.visibility = "VISIBLE" THEN <<QuantitativeInvisibilityUP1D(0)>>
    ELSE IF ls.visibility = "HIDDEN" THEN <<NotUP1D(QuantitativeInvisibilityUP1D(0))>>
    ELSE IF ls.visibility = "RANGE" THEN
        <<[op |-> "QuantitativeInvisibilityRangeUP1D",
           qi_start |-> ls.qi_start, qi_end |-> ls.qi_end]>>
    ELSE <<>>

\* process: selection criteria by edge types
RECURSIVE EdgeTypeList(_, _)
EdgeTypeList(ls, k) ==
    IF k > Len(EdgeTypeOrder) THEN <<>>
    ELSE LET ty == EdgeTypeOrder[k]
             upred == [op |-> "pyNatureUP1D", nature |-> ty]
         IN  (IF ty \in ls.select_types
                THEN <<IF ty \in ls.exclude_types THEN NotUP1D(upred) ELSE upred>>
                ELSE <<>>) \o EdgeTypeList(ls, k + 1)

EdgeTypeCriteria(ls) ==
    IF ~ls.select_by_edge_types THEN <<>>
    ELSE LET upred == IF ls.edge_type_combination = "OR"
                        THEN OrUP1D(EdgeTypeList(ls, 1))
                        ELSE AndUP1D(EdgeTypeList(ls, 1))
         IN  <<IF ls.edge_type_negation = "EXCLUSIVE" THEN NotUP1D(upred) ELSE upred>>

\* process: selection criteria by face marks
FaceMarkCriteria(ls) ==
    IF ~ls.select_by_face_marks THEN <<>>
    ELSE LET upred == IF ls.face_mark_condition = "BOTH"
                        THEN [op |-> "FaceMarkBothUP1D"]
                        ELSE [op |-> "FaceMarkOneUP1D"]
         IN  <<IF ls.face_mark_negation = "EXCLUSIVE" THEN NotUP1D(upred) ELSE upred>>

\* process: selection criteria by group of objects (group {}: None)
GroupCriteria(ls) ==
    IF ls.select_by_group /\ ls.group # {}
      THEN <<[op |-> "ObjectNamesUP1D", names |-> ls.group,
              negative |-> (ls.group_negation = "EXCLUSIVE")]>>
      ELSE <<>>

\* process: selection criteria by image border
ImageBorderCriteria(ls) ==
    IF ls.select_by_image_border THEN <<[op |-> "WithinImageBoundaryUP1D"]>> ELSE <<>>

\* process: upred = AndUP1D(*selection_criteria)
SelectionPredicate(ls) ==
    AndUP1D(VisibilityCriteria(ls) \o EdgeTypeCriteria(ls) \o FaceMarkCriteria(ls)
            \o GroupCriteria(ls) \o ImageBorderCriteria(ls))

NoneEnabled(ls) ==
    /\ ~ls.select_by_visibility
    /\ ~ls.select_by_edge_types
    /\ ~ls.select_by_face_marks
    /\ ~ls.select_by_group
    /\ ~ls.select_by_image_border

EnabledGroups(ls) ==
    (IF ls.select_by_visibility THEN 1 ELSE 0) + (IF ls.select_by_edge_types THEN 1 ELSE 0)
    + (IF ls.select_by_face_marks THEN 1 ELSE 0) + (IF ls.select_by_group THEN 1 ELSE 0)
    + (IF ls.select_by_image_border THEN 1 ELSE 0)

\* At most this many criteria groups are enabled together.
MaxEnabledGroups == 1

LineSets ==
    { ls \in [select_by_visibility : BOOLEAN, visibility : {"VISIBLE", "HIDDEN", "RANGE"},
              qi_start : {1}, qi_end : {2},
              select_by_edge_types : BOOLEAN,
              select_types : {{}, {"SILHOUETTE"}, {"SILHOUETTE", "BORDER"}},
              exclude_types : {{}, {"BORDER"}},
              edge_type_combination : {"OR", "AND"},
              edge_type_negation : {"INCLUSIVE", "EXCLUSIVE"},
              select_by_face_marks : BOOLEAN, face_mark_condition : {"ONE", "BOTH"},
              face_mark_negation : {"INCLUSIVE", "EXCLUSIVE"},
              select_by_group : BOOLEAN, group : {{}, {"Cube"}},
              group_negation : {"INCLUSIVE", "EXCLUSIVE"},
              select_by_image_border : BOOLEAN] :
        EnabledGroups(ls) <= MaxEnabledGroups }

SelFEdges ==
    { [is_smooth |-> TRUE, border |-> FALSE, face_mark |-> TRUE,
       face_mark_left |-> FALSE, face_mark_right |-> FALSE],
      [is_smooth |-> FALSE, border |-> TRUE, face_mark |-> FALSE,
       face_mark_left |-> FALSE, face_mark_right |-> TRUE] }

Curves ==
    [qi : {0, 2}, types : SUBSET {"SILHOUETTE", "BORDER"}, name : {"Cube", "Sphere"},
     within_border : BOOLEAN, fedges : { <<fe>> : fe \in SelFEdges }]

SelIdle ==
    /\ lineset = "none"
    /\ curve = "none"
    /\ sel_out = [done |-> FALSE, exc |-> "none", accepted |-> FALSE]

SelInit ==
    /\ lineset \in LineSets
    /\ curve \in Curves
    /\ sel_out = [done |-> FALSE, exc |-> "none", accepted |-> FALSE]

\* process builds the predicate and Operators.select(upred) calls it on the curve.
Select ==
    LET r == Call(SelectionPredicate(lineset), curve)
    IN  /\ ~sel_out.done
        /\ sel_out' = [done |-> TRUE,
                       exc |-> IF r \in {"T", "F"} THEN "none" ELSE r,
                       accepted |-> (r = "T")]
        /\ UNCHANGED <<lineset, curve>>

(***************************************************************************)
(* The shader list of process, and the strokes Operators.create shades      *)
(*                                                                          *)
(* A shader object is a record [kind, group, idx, blend]: its class, the    *)
(* part of process that appended it, the position of its modifier in the    *)
(* linestyle's list (0 for the others) and its scalar blend mode.  Building *)
(* gives [exc, shaders]: the exception raised, if any, and the shaders      *)
(* appended before it.                                                       *)
(***************************************************************************)

Ok(shs)  == [exc |-> "none", shaders |-> shs]
Raise(e) == [exc |-> e, shaders |-> <<>>]

\* a; b in sequence: b's statements run only when a raised nothing
Then(a, b) ==
    IF a.exc # "none" THEN a ELSE [exc |-> b.exc, shaders |-> a.shaders \o b.shaders]

Shader(kind, group, idx, blnd) == [kind |-> kind, group |-> group, idx |-> idx, blend |-> blnd]

Pivots == {"START", "END", "CENTER", "ABSOLUTE", "PARAM"}

\* Transform2DShader.__init__
Transform2DShader_new_unchecked(pivot) == "none"
Transform2DShader_new(pivot) == IF pivot \notin Pivots THEN "ValueError" ELSE "none"

\* BaseThicknessShader.__init__
BaseThicknessShader_new(position) ==
    IF position = "CENTER" THEN "none"
    ELSE IF position = "INSIDE" THEN "none"
    ELSE IF position = "OUTSIDE" THEN "none"
    ELSE IF position = "RELATIVE" THEN "none"
    ELSE "ValueError"

\* Color/Alpha/ThicknessDistanceFromObjectShader.__init__
DistanceFromObjectShader_new(target) == IF target = "None" THEN "ValueError" ELSE "none"

\* process: one pass of the loop over linestyle.geometry_modifiers (m.use holds)
GeometryShader(m, k) ==
    LET kinds == [SAMPLING |-> "SamplingShader", BEZIER_CURVE |-> "BezierCurveShader",
                  SINUS_DISPLACEMENT |-> "SinusDisplacementShader",
                  SPATIAL_NOISE |-> "SpatialNoiseShader",
                  BACKBONE_STRETCHER |-> "BackboneStretcherShader",
                  TIP_REMOVER |-> "TipRemoverShader",
                  POLYGONIZATION |-> "PolygonalizationShader",
                  GUIDING_LINES |-> "GuidingLinesShader",
                  PERLIN_NOISE_1D |-> "PerlinNoise1DShader",
                  PERLIN_NOISE_2D |-> "PerlinNoise2DShader"]
    IN  IF m.type \in DOMAIN kinds THEN Ok(<<Shader(kinds[m.type], "geometry", k, "-")>>)
        ELSE IF m.type = "2D_OFFSET" THEN Ok(<<Shader("Offset2DShader", "geometry", k, "-")>>)
        ELSE IF m.type = "2D_TRANSFORM" THEN
            IF Transform2DShader_new(m.pivot) # "none"
              THEN Raise(Transform2DShader_new(m.pivot))
              ELSE Ok(<<Shader("Transform2DShader", "geometry", k, "-")>>)
        ELSE Ok(<<>>)

\* process: one pass of the loops over the color, alpha and thickness
\* modifiers (m.use holds); prefix is "Color", "Alpha" or "Thickness".
PropertyShader(prefix, group, m, k) ==
    LET blnd == IF group = "color" THEN "-" ELSE m.blend
    IN  IF m.type = "ALONG_STROKE" THEN
            Ok(<<Shader(prefix \o "AlongStrokeShader", group, k, blnd)>>)
        ELSE IF m.type = "DISTANCE_FROM_CAMERA" THEN
            Ok(<<Shader(prefix \o "DistanceFromCameraShader", group, k, blnd)>>)
        ELSE IF m.type = "DISTANCE_FROM_OBJECT" THEN
            IF DistanceFromObjectShader_new(m.target) # "none"
              THEN Raise(DistanceFromObjectShader_new(m.target))
              ELSE Ok(<<Shader(prefix \o "DistanceFromObjectShader", group, k, blnd)>>)
        ELSE IF m.type = "MATERIAL" THEN
            Ok(<<Shader(prefix \o "MaterialShader", group, k, blnd)>>)
        ELSE IF m.type = "CALLIGRAPHY" /\ group = "thickness" THEN
            Ok(<<Shader("CalligraphicThicknessShader", group, k, blnd)>>)
        ELSE Ok(<<>>)

ModifierShader_always(group, m, k) ==
    IF group = "geometry" THEN GeometryShader(m, k)
    ELSE IF group = "color" THEN PropertyShader("Color", group, m, k)
    ELSE IF group = "alpha" THEN PropertyShader("Alpha", group, m, k)
    ELSE PropertyShader("Thickness", group, m, k)
ModifierShader(group, m, k) ==
    IF ~m.use THEN Ok(<<>>)
    ELSE IF group = "geometry" THEN GeometryShader(m, k)
    ELSE IF group = "color" THEN PropertyShader("Color", group, m, k)
    ELSE IF group = "alpha" THEN PropertyShader("Alpha", group, m, k)
    ELSE PropertyShader("Thickness", group, m, k)

\* process: for m in linestyle.<group>_modifiers, from the k-th on
RECURSIVE ModifierShaders(_, _, _)
ModifierShaders(group, mods, k) ==
    IF k > Len(mods) THEN Ok(<<>>)
    ELSE Then(ModifierShader(group, mods[k], k), ModifierShaders(group, mods, k + 1))

\* process: if linestyle.use_texture
RECURSIVE SlotShaders(_, _)
SlotShaders(slots, k) ==
    IF k > Len(slots) THEN <<>>
    ELSE (IF slots[k] # "None" THEN <<Shader("BlenderTextureShader", "texture", k, "-")>>
                               ELSE <<>>) \o SlotShaders(slots, k + 1)

TextureShaders(ls) ==
    IF ~ls.use_texture THEN Ok(<<>>)
    ELSE LET tex == SlotShaders(ls.texture_slots, 1)
         IN  IF tex # <<>>
               THEN Ok(tex \o <<Shader("StrokeTextureStepShader", "texture",
                                       Len(ls.texture_slots) + 1, "-")>>)
               ELSE Ok(tex)

\* process: the thickness position handed to the thickness shaders
thickness_position_plainOnly(ls) ==
    IF (~ls.use_chaining) \/ (ls.chaining = "PLAIN")
      THEN ls.thickness_position
      ELSE "CENTER"
thickness_position(ls) ==
    IF (~ls.use_chaining) \/ (ls.chaining = "PLAIN" /\ ls.use_same_object)
      THEN ls.thickness_position
      ELSE "CENTER"

\* process: BaseColorShader(...), then BaseThicknessShader(...)
BaseShaders(ls) ==
    Then(Ok(<<Shader("BaseColorShader", "basecolor", 0, "-")>>),
         IF BaseThicknessShader_new(thickness_position(ls)) # "none"
           THEN Raise(BaseThicknessShader_new(thickness_position(ls)))
           ELSE Ok(<<Shader("BaseThicknessShader", "basethickness", 0, "-")>>))

\* process: caps.  RoundCapShader and SquareCapShader are not imported (the
\* import lines are commented out), so naming them raises NameError.
CapShaders(ls) ==
    IF ls.caps = "ROUND" THEN Raise("NameError")
    ELSE IF ls.caps = "SQUARE" THEN Raise("NameError")
    ELSE Ok(<<>>)

\* process: pattern of the dashed line
DashPattern(ls) ==
    (IF ls.dash1 > 0 /\ ls.gap1 > 0 THEN <<ls.dash1, ls.gap1>> ELSE <<>>)
    \o (IF ls.dash2 > 0 /\ ls.gap2 > 0 THEN <<ls.dash2, ls.gap2>> ELSE <<>>)
    \o (IF ls.dash3 > 0 /\ ls.gap3 > 0 THEN <<ls.dash3, ls.gap3>> ELSE <<>>)

DashShaders(ls) ==
    IF ls.use_dashed_line /\ Len(DashPattern(ls)) > 0
      THEN Ok(<<Shader("DashedLineShader", "dash", 0, "-")>>)
      ELSE Ok(<<>>)

\* process: prepare a list of stroke shaders
ShadersList_alphaFirst(ls) ==
    Then(ModifierShaders("geometry", ls.geometry_modifiers, 1),
    Then(TextureShaders(ls),
    Then(BaseShaders(ls),
    Then(ModifierShaders("alpha", ls.alpha_modifiers, 1),
    Then(ModifierShaders("color", ls.color_modifiers, 1),
    Then(ModifierShaders("thickness", ls.thickness_modifiers, 1),
    Then(CapShaders(ls),
         DashShaders(ls))))))))
ShadersList(ls) ==
    Then(ModifierShaders("geometry", ls.geometry_modifiers, 1),
    Then(TextureShaders(ls),
    Then(BaseShaders(ls),
    Then(ModifierShaders("color", ls.color_modifiers, 1),
    Then(ModifierShaders("alpha", ls.alpha_modifiers, 1),
    Then(ModifierShaders("thickness", ls.thickness_modifiers, 1),
    Then(CapShaders(ls),
         DashShaders(ls))))))))

\* process, "join feature edges to form chains": the _seed.get calls it makes.
\* The sketchy chaining iterators are built from linestyle.rounds alone.
ChainingSeedCalls_seeded(ls) ==
    IF ls.use_chaining /\ ls.chaining = "SKETCHY"
      THEN <<[who |-> "chainer", arg |-> -1]>>
      ELSE <<>>
ChainingSeedCalls(ls) == <<>>

\* process: the _seed.get(m.seed) calls of the loop over the geometry
\* modifiers, from the k-th on; the loop ends at a constructor that raises.
RECURSIVE PerlinSeedCalls(_, _)
PerlinSeedCalls(mods, k) ==
    IF k > Len(mods) THEN <<>>
    ELSE IF ModifierShader("geometry", mods[k], k).exc # "none" THEN <<>>
    ELSE (IF mods[k].use /\ mods[k].type \in {"PERLIN_NOISE_1D", "PERLIN_NOISE_2D"}
            THEN <<[who |-> "perlin", arg |-> mods[k].seed]>>
            ELSE <<>>) \o PerlinSeedCalls(mods, k + 1)

SeedCalls(ls) == ChainingSeedCalls(ls) \o PerlinSeedCalls(ls.geometry_modifiers, 1)

\* process: the position argument of BaseThicknessShader(...) and of each
\* thickness modifier's shader, in the order of the calls
ThicknessPositions(ls) ==
    <<thickness_position(ls)>>
        \o [i \in 1..Len(ModifierShaders("thickness", ls.thickness_modifiers, 1).shaders) |->
               thickness_position(ls)]

\* shader.shade(stroke) of a stroke with vertices: the exception raised, if any.
\* The alpha and thickness modifiers call self.blend for each vertex.
Shade_exc(sh) ==
    IF sh.group \in {"alpha", "thickness"}
      THEN blend(sh.blend, Half, One, One).exc
      ELSE "none"

\* At most this many modifiers on a linestyle, over its four lists.
MaxMods == 2

Modifier(use, type, pivot, blnd, target) ==
    [use |-> use, type |-> type, pivot |-> pivot, blend |-> blnd, target |-> target,
     seed |-> 0]

GeometryModifiers ==
    { Modifier(TRUE, "SAMPLING", "-", "-", "-"),
      Modifier(FALSE, "SAMPLING", "-", "-", "-"),
      Modifier(TRUE, "2D_TRANSFORM", "ABSOLUTE", "-", "-"),
      Modifier(TRUE, "2D_TRANSFORM", "BOGUS", "-", "-"),
      [Modifier(TRUE, "PERLIN_NOISE_1D", "-", "-", "-") EXCEPT !.seed = -1],
      [Modifier(TRUE, "PERLIN_NOISE_2D", "-", "-", "-") EXCEPT !.seed = 7] }

ColorModifiers ==
    { Modifier(TRUE, "ALONG_STROKE", "-", "MIX", "-"),
      Modifier(FALSE, "ALONG_STROKE", "-", "MIX", "-"),
      Modifier(TRUE, "DISTANCE_FROM_OBJECT", "-", "MIX", "Empty"),
      Modifier(TRUE, "DISTANCE_FROM_OBJECT", "-", "MIX", "None") }

ScalarModifiers ==
    { Modifier(TRUE, "ALONG_STROKE", "-", "MIX", "-"),
      Modifier(FALSE, "ALONG_STROKE", "-", "MIX", "-"),
      Modifier(TRUE, "ALONG_STROKE", "-", "BOGUS", "-"),
      Modifier(TRUE, "DISTANCE_FROM_OBJECT", "-", "MIX", "None") }

ModifierCounts ==
    { n \in [{"geometry", "color", "alpha", "thickness"} -> 0..MaxMods] :
        n["geometry"] + n["color"] + n["alpha"] + n["thickness"] <= MaxMods }

ModifierLists ==
    UNION { [geometry_modifiers : [1..n["geometry"] -> GeometryModifiers],
             color_modifiers : [1..n["color"] -> ColorModifiers],
             alpha_modifiers : [1..n["alpha"] -> ScalarModifiers],
             thickness_modifiers : [1..n["thickness"] -> ScalarModifiers]] :
            n \in ModifierCounts }

ChainingSettings ==
    { [use_chaining |-> FALSE, chaining |-> "PLAIN", use_same_object |-> FALSE],
      [use_chaining |-> TRUE, chaining |-> "PLAIN", use_same_object |-> TRUE],
      [use_chaining |-> TRUE, chaining |-> "PLAIN", use_same_object |-> FALSE],
      [use_chaining |-> TRUE, chaining |-> "SKETCHY", use_same_object |-> TRUE] }

DashSettings ==
    { [use_dashed_line |-> FALSE, dash1 |-> 10, gap1 |-> 5],
      [use_dashed_line |-> TRUE, dash1 |-> 10, gap1 |-> 5],
      [use_dashed_line |-> TRUE, dash1 |-> 0, gap1 |-> 5] }

Linestyle(mods, ch, d, tex, position, caps) ==
    [geometry_modifiers |-> mods.geometry_modifiers,
     color_modifiers |-> mods.color_modifiers,
     alpha_modifiers |-> mods.alpha_modifiers,
     thickness_modifiers |-> mods.thickness_modifiers,
     use_texture |-> tex, texture_slots |-> <<"None", "Tex">>,
     use_chaining |-> ch.use_chaining, chaining |-> ch.chaining,
     use_same_object |-> ch.use_same_object,
     thickness_position |-> position, caps |-> caps,
     use_dashed_line |-> d.use_dashed_line, dash1 |-> d.dash1, gap1 |-> d.gap1,
     dash2 |-> 0, gap2 |-> 0, dash3 |-> 0, gap3 |-> 2]

ProcIdle ==
    /\ linestyle = "none"
    /\ chains = 0
    /\ pc = "idle"
    /\ shaders_list = <<>>
    /\ proc_exc = "none"
    /\ stroke_no = 0
    /\ applied = 0
    /\ shaded = 0
    /\ seed_calls = <<>>
    /\ positions_passed = <<>>

ProcInit ==
    /\ \E mods \in ModifierLists, ch \in ChainingSettings, d \in DashSettings,
          tex \in BOOLEAN, position \in {"CENTER", "RELATIVE", "BOGUS"},
          caps \in {"BUTT", "ROUND", "SQUARE"} :
            linestyle = Linestyle(mods, ch, d, tex, position, caps)
    /\ chains \in {0, 1}
    /\ pc = "start"
    /\ shaders_list = <<>>
    /\ proc_exc = "none"
    /\ stroke_no = 0
    /\ applied = 0
    /\ shaded = 0
    /\ seed_calls = <<>>
    /\ positions_passed = <<>>

\* process, from "join feature edges to form chains" to the call of
\* Operators.create
BuildShaders ==
    LET r == ShadersList(linestyle)
    IN  /\ pc = "start"
        /\ seed_calls' = SeedCalls(linestyle)
        /\ shaders_list' = r.shaders
        /\ positions_passed' = IF r.exc # "none" THEN <<>> ELSE ThicknessPositions(linestyle)
        /\ proc_exc' = r.exc
        /\ pc' = IF r.exc # "none" THEN "raised" ELSE "create"
        /\ UNCHANGED <<linestyle, chains, stroke_no, applied, shaded>>

\* Operators.create: the next chain becomes a stroke, or there is none left
CreateStroke ==
    /\ pc = "create"
    /\ IF stroke_no < chains
         THEN /\ stroke_no' = stroke_no + 1
              /\ applied' = 0
              /\ pc' = "shade"
         ELSE /\ pc' = "done"
              /\ UNCHANGED <<stroke_no, applied>>
    /\ UNCHANGED <<linestyle, chains, shaders_list, proc_exc, shaded,
                   seed_calls, positions_passed>>

\* Operators.create: the next shader of the list shades the stroke
ShadeStroke ==
    LET e == Shade_exc(shaders_list[applied + 1])
    IN  /\ pc = "shade"
        /\ applied < Len(shaders_list)
        /\ IF e # "none"
             THEN /\ proc_exc' = e
                  /\ pc' = "raised"
                  /\ UNCHANGED <<applied, shaded>>
             ELSE /\ applied' = applied + 1
                  /\ shaded' = shaded + 1
                  /\ pc' = IF applied + 1 = Len(shaders_list) THEN "create" ELSE "shade"
                  /\ UNCHANGED proc_exc
        /\ UNCHANGED <<linestyle, chains, shaders_list, stroke_no,
                       seed_calls, positions_passed>>

(***************************************************************************)
(* iter_distance_from_camera and iter_distance_from_object                  *)
(*                                                                          *)
(* A stroke is the sequence of its vertices' distances (to the camera, or   *)
(* to the object's location); distances and ranges are integers, the        *)
(* yielded values exact rationals.                                          *)
(***************************************************************************)

\* (distance - range_min) / normfac
Ratio(distance, range_min, normfac) ==
    IF normfac = 0 THEN [exc |-> "ZeroDivisionError", value |-> Zero]
    ELSE [exc |-> "none", value |-> Rat(distance - range_min, normfac)]

\* iter_distance_from_camera: the value yielded for a vertex at the distance
iter_distance_from_camera_inclusive(distance, range_min, range_max) ==
    LET normfac == range_max - range_min
    IN  IF range_min <= distance /\ distance <= range_max
          THEN Ratio(distance, range_min, normfac)
          ELSE [exc |-> "none", value |-> IF range_min > distance THEN Zero ELSE One]
iter_distance_from_camera(distance, range_min, range_max) ==
    LET normfac == range_max - range_min
    IN  IF range_min < distance /\ distance < range_max
          THEN Ratio(distance, range_min, normfac)
          ELSE [exc |-> "none", value |-> IF range_min > distance THEN Zero ELSE One]

\* iter_distance_from_object: the value yielded for a vertex at the distance
iter_distance_from_object(distance, range_min, range_max) ==
    LET normfac == range_max - range_min
    IN  IF range_min < distance /\ distance < range_max
          THEN Ratio(distance, range_min, normfac)
          ELSE [exc |-> "none", value |-> IF distance < range_min THEN Zero ELSE One]

\* Largest range bound and, less one, largest distance of a vertex.
MaxRange == 3
\* Most vertices of a stroke.
MaxVertices == 2

DistIdle ==
    /\ dist_in = [fn |-> "camera", range_min |-> 0, range_max |-> 0, stroke |-> <<>>]
    /\ dist_out = <<>>

DistInit ==
    /\ dist_in \in [fn : {"camera", "object"}, range_min : -1..MaxRange,
                    range_max : -1..MaxRange,
                    stroke : UNION { [1..n -> 0..(MaxRange + 1)] : n \in 1..MaxVertices }]
    /\ dist_out = <<>>

\* The generator is resumed: it yields the value of the next vertex, or the
\* exception ends it.
YieldDistance ==
    LET k == Len(dist_out) + 1
        y == IF dist_in.fn = "camera"
               THEN iter_distance_from_camera(dist_in.stroke[k], dist_in.range_min,
                                              dist_in.range_max)
               ELSE iter_distance_from_object(dist_in.stroke[k], dist_in.range_min,
                                              dist_in.range_max)
    IN  /\ k <= Len(dist_in.stroke)
        /\ k > 1 => dist_out[k - 1].exc = "none"
        /\ dist_out' = Append(dist_out, y)
        /\ UNCHANGED dist_in

(***************************************************************************)
(* bound                                                                    *)
(***************************************************************************)

RLeq(a, b) == ~RLess(b, a)

\* return (lower if x <= lower else higher if x >= higher else x)
bound(lower, x, higher) ==
    IF RLeq(x, lower) THEN lower
    ELSE IF RLeq(higher, x) THEN higher
    ELSE x

\* The arguments are the halves from -1/2 up to MaxBound/2.
MaxBound == 3

BdIdle ==
    /\ bd_in = [lower |-> Zero, x |-> Zero, higher |-> Zero]
    /\ bd_out = [done |-> FALSE, value |-> Zero]

BdInit ==
    /\ \E lower, x, higher \in { Rat(n, 2) : n \in -1..MaxBound } :
          bd_in = [lower |-> lower, x |-> x, higher |-> higher]
    /\ bd_out = [done |-> FALSE, value |-> Zero]

\* A call bound(lower, x, higher).
CallBound ==
    /\ ~bd_out.done
    /\ bd_out' = [done |-> TRUE, value |-> bound(bd_in.lower, bd_in.x, bd_in.higher)]
    /\ UNCHANGED bd_in

(***************************************************************************)
(* stroke_curvature                                                         *)
(*                                                                          *)
(* Points have integer coordinates.  The lengths a, b, c are square roots,  *)
(* so a curvature K is kept as the rational sign(K) * K^2: the map          *)
(* K |-> sign(K) * K^2 is strictly increasing and fixes 0 and 1, so the     *)
(* comparisons of bound(0.0, K, 1.0) are the comparisons of the kept        *)
(* values.                                                                  *)
(***************************************************************************)

VSub(p, q) == <<p[1] - q[1], p[2] - q[2]>>
\* Vector.cross of 2D vectors
VCross(u, v) == u[1] * v[2] - u[2] * v[1]
\* the square of Vector.length
VLength2(u) == u[1] * u[1] + u[2] * u[2]
Sign(x) == IF x < 0 THEN -1 ELSE IF x > 0 THEN 1 ELSE 0

\* K = (4 * area) / (a * b * c) with area = 0.5 * ab.cross(ac), as sign(K) * K^2;
\* the division raises ZeroDivisionError when a * b * c is 0.
Curvature_K(prev, current, next) ==
    LET ab == VSub(current, prev)
        bc == VSub(next, current)
        ac == VSub(prev, next)
        cross == VCross(ab, ac)
        abc2 == VLength2(ab) * VLength2(bc) * VLength2(ac)
    IN  IF abc2 = 0 THEN [exc |-> "ZeroDivisionError", value |-> Zero]
        ELSE [exc |-> "none", value |-> Rat(Sign(cross) * 4 * cross * cross, abc2)]

stroke_curvature_unbounded(it) ==
    IF it.is_end \/ it.is_begin THEN Zero
    ELSE LET K == Curvature_K(it.prev, it.current, it.next)
         IN  IF K.exc = "ZeroDivisionError" THEN Zero
             ELSE K.value
stroke_curvature(it) ==
    IF it.is_end \/ it.is_begin THEN Zero
    ELSE LET K == Curvature_K(it.prev, it.current, it.next)
         IN  IF K.exc = "ZeroDivisionError" THEN Zero
             ELSE bound(Zero, K.value, One)

\* Largest coordinate of a point.
MaxCoord == 2

Points2D == (0..MaxCoord) \X (0..MaxCoord)

CvIdle ==
    /\ cv_it = [is_begin |-> FALSE, is_end |-> FALSE, prev |-> <<0, 0>>,
                current |-> <<0, 0>>, next |-> <<0, 0>>]
    /\ cv_out = [done |-> FALSE, value |-> Zero]

\* An iterator is at the first vertex (is_begin), past the last (is_end) or
\* at a vertex with a vertex on both sides.
CvInit ==
    /\ \E at \in {"begin", "inside", "end"}, prev, current, next \in Points2D :
          cv_it = [is_begin |-> (at = "begin"), is_end |-> (at = "end"),
                   prev |-> prev, current |-> current, next |-> next]
    /\ cv_out = [done |-> FALSE, value |-> Zero]

\* A call stroke_curvature(it).
CallCurvature ==
    /\ ~cv_out.done
    /\ cv_out' = [done |-> TRUE, value |-> stroke_curvature(cv_it)]
    /\ UNCHANGED cv_it

(***************************************************************************)
(* get_chain_length                                                         *)
(*                                                                          *)
(* A chain is the sequence of its curves' 2D lengths; a curve is named by   *)
(* its position 1..N, and 0 stands for no edge.  The chaining iterator      *)
(* steps along the chain: forward in the direction of its orientation,      *)
(* backward against it, and around in a closed chain.                       *)
(***************************************************************************)

\* _it.is_end: the iterator has run off the chain
It_is_end(it) == it.current_edge = 0

\* _it.is_begin: the iterator is at the edge it began at
It_is_begin(it) == it.current_edge = it.begin

\* the curve next to curve k in the chain, dir = 1 or -1
Neighbour(chain, k, dir) ==
    LET n == Len(chain.lens)
    IN  IF k + dir \in 1..n THEN k + dir
        ELSE IF chain.cyclic THEN (IF dir = 1 THEN 1 ELSE n)
        ELSE 0

\* _it.increment()
It_increment(chain, it) ==
    [it EXCEPT !.current_edge = Neighbour(chain, @, IF it.orientation THEN 1 ELSE -1)]

\* _it.decrement()
It_decrement(chain, it) ==
    [it EXCEPT !.current_edge = Neighbour(chain, @, IF it.orientation THEN -1 ELSE 1)]

\* Most curves of a chain, and the longest curve.
MaxCurves == 3
MaxCurveLen == 2

GclIdle ==
    /\ gcl_chain = [lens |-> <<>>, cyclic |-> FALSE]
    /\ gcl_arg = [ve |-> 0, orientation |-> TRUE]
    /\ gcl_it = [begin |-> 0, current_edge |-> 0, orientation |-> TRUE]
    /\ gcl_length = 0
    /\ gcl_pc = "idle"

\* length = 0.0; the iterator is set up at ve
GclInit ==
    /\ gcl_chain \in [lens : UNION { [1..n -> 1..MaxCurveLen] : n \in 1..MaxCurves },
                      cyclic : BOOLEAN]
    /\ gcl_arg \in [ve : 1..Len(gcl_chain.lens), orientation : BOOLEAN]
    /\ gcl_it = [begin |-> gcl_arg.ve, current_edge |-> gcl_arg.ve,
                 orientation |-> gcl_arg.orientation]
    /\ gcl_length = 0
    /\ gcl_pc = "forward"

\* "run iterator till end of chain": one test of the while condition and,
\* when it holds, one pass of the body
GclForward ==
    /\ gcl_pc = "forward"
    /\ IF It_is_end(gcl_it)
         THEN /\ gcl_pc' = "reset"
              /\ UNCHANGED <<gcl_length, gcl_it>>
         ELSE /\ gcl_length' = gcl_length + gcl_chain.lens[gcl_it.current_edge]
              /\ IF It_is_begin(gcl_it)
                   THEN /\ gcl_pc' = "reset"
                        /\ UNCHANGED gcl_it
                   ELSE /\ gcl_it' = It_increment(gcl_chain, gcl_it)
                        /\ UNCHANGED gcl_pc
    /\ UNCHANGED <<gcl_chain, gcl_arg>>

\* "reset iterator" and "run iterator till begin of chain": the reset with the
\* if and the first decrement, then one test of the while condition and,
\* when it holds, one pass of the body
GclBackward ==
    /\ gcl_pc \in {"reset", "backward"}
    /\ IF gcl_pc = "reset"
         THEN LET it == [begin |-> gcl_arg.ve, current_edge |-> gcl_arg.ve,
                         orientation |-> gcl_arg.orientation]
              IN  IF ~It_is_begin(it)
                    THEN /\ gcl_it' = It_decrement(gcl_chain, it)
                         /\ gcl_pc' = "backward"
                         /\ UNCHANGED gcl_length
                    ELSE /\ gcl_it' = it
                         /\ gcl_pc' = "done"
                         /\ UNCHANGED gcl_length
         ELSE IF ~(It_is_end(gcl_it) \/ It_is_begin(gcl_it))
                THEN /\ gcl_length' = gcl_length + gcl_chain.lens[gcl_it.current_edge]
                     /\ gcl_it' = It_decrement(gcl_chain, gcl_it)
                     /\ UNCHANGED gcl_pc
                ELSE /\ gcl_pc' = "done"
                     /\ UNCHANGED <<gcl_it, gcl_length>>
    /\ UNCHANGED <<gcl_chain, gcl_arg>>

(***************************************************************************)
(* DashedLineShader                                                         *)
(*                                                                          *)
(* shade() walks the vertices of the stroke resampled at step 1.0 in step   *)
(* with cycle(self._pattern): zip takes one vertex and one pattern entry    *)
(* per iteration.  The i-th vertex lies at curvilinear abscissa i - 1.      *)
(***************************************************************************)
\* Longest stroke, in vertices, and the largest dash or gap length.
MaxDashVerts == 6
MaxDash == 3

\* DashedLineShader.__init__
DashedLineShader_new(pattern) == [pattern |-> pattern]

\* sampling = 1.0
DashSampling == 1

\* it.t of the k-th vertex (k from 1) of the resampled stroke
DashPos(k) == (k - 1) * DashSampling

\* the entry zip(it, cycle(self._pattern)) pairs with the k-th vertex
DashEntry(self, k) == self.pattern[((k - 1) % Len(self.pattern)) + 1]

\* The body of the loop for the k-th vertex: the locals start and visible
\* after it, and the vertex's attribute.visible.
DashBody(self, k, start, visible, attr) ==
    LET pos == DashPos(k)
        toggle == pos - start + DashSampling > DashEntry(self, k)
        start1 == IF toggle THEN pos ELSE start
        visible1 == IF toggle THEN ~visible ELSE visible
    IN  [start |-> start1, visible |-> visible1,
         attr |-> IF ~visible1 THEN FALSE ELSE attr]

\* The patterns process() can build: one or two dash/gap pairs of positive
\* lengths.
DashPatterns ==
    {<<d, g>> : d \in 1..MaxDash, g \in 1..MaxDash}
        \cup {<<d, g, 1, e>> : d \in 1..MaxDash, g \in 1..MaxDash, e \in 1..2}

DlIdle ==
    /\ dl_self = DashedLineShader_new(<<1, 1>>)
    /\ dl_n = 0
    /\ dl_k = 0
    /\ dl_start = 0
    /\ dl_visible = TRUE
    /\ dl_attr = <<>>

\* start = 0.0, visible = True, and a stroke whose vertices are all visible.
DlInit ==
    /\ dl_self \in {DashedLineShader_new(p) : p \in DashPatterns}
    /\ dl_n \in 1..MaxDashVerts
    /\ dl_k = 0
    /\ dl_start = 0
    /\ dl_visible = TRUE
    /\ dl_attr = [i \in 1..dl_n |-> TRUE]

\* One iteration of the for loop.
DashVertex ==
    /\ dl_k < dl_n
    /\ LET b == DashBody(dl_self, dl_k + 1, dl_start, dl_visible,
                         dl_attr[dl_k + 1])
       IN  /\ dl_start' = b.start
           /\ dl_visible' = b.visible
           /\ dl_attr' = [dl_attr EXCEPT ![dl_k + 1] = b.attr]
    /\ dl_k' = dl_k + 1
    /\ UNCHANGED <<dl_self, dl_n>>

(***************************************************************************)
(* The face mark predicates called on ViewEdges of several feature edges    *)
(***************************************************************************)
\* Most feature edges of one ViewEdge.
MaxFEdges == 2

FmFEdges ==
    [is_smooth : BOOLEAN, border : BOOLEAN, face_mark : BOOLEAN,
     face_mark_left : BOOLEAN, face_mark_right : BOOLEAN]

FmViewEdges ==
    { [fedges |-> s] : s \in UNION { [1..n -> FmFEdges] : n \in 1..MaxFEdges } }

FmIdle ==
    /\ fm_inter = [fedges |-> <<>>]
    /\ fm_both = "none"
    /\ fm_one = "none"

FmInit ==
    /\ fm_inter \in FmViewEdges
    /\ fm_both = "none"
    /\ fm_one = "none"

CallFaceMarkBoth ==
    /\ fm_both = "none"
    /\ fm_both' = FaceMarkBoth_call(fm_inter)
    /\ UNCHANGED <<fm_inter, fm_one>>

CallFaceMarkOne ==
    /\ fm_one = "none"
    /\ fm_one' = FaceMarkOne_call(fm_inter)
    /\ UNCHANGED <<fm_inter, fm_both>>

(***************************************************************************)
(* Shading several strokes with one shaders list                            *)
(*                                                                          *)
(* A shade() call gets the shader object, can reach the module-level _seed  *)
(* and gets the stroke; what it leaves behind is the triple of the three.   *)
(***************************************************************************)
\* Most strokes shaded with one list, and most vertices of a stroke.
MaxStrokes == 2
MaxShVerts == 2

ShEffect(self, sd, stroke) == [self |-> self, seed |-> sd, stroke |-> stroke]

\* BaseThicknessShader.__init__ (a valid position): self.__outer, self.__inner
BaseThicknessShader_fields(thickness, position, ratio) ==
    LET outer == IF position = "CENTER" THEN RMul(thickness, Half)
                 ELSE IF position = "INSIDE" THEN Zero
                 ELSE IF position = "OUTSIDE" THEN thickness
                 ELSE RMul(thickness, ratio)
        inner == IF position = "INSIDE" THEN thickness
                 ELSE IF position = "OUTSIDE" THEN Zero
                 ELSE RSub(thickness, outer)
    IN  [kind |-> "BaseThicknessShader", outer |-> outer, inner |-> inner,
         persp_camera |-> FALSE, pattern |-> <<>>]

\* BaseThicknessShader.shade
BaseThicknessShader_shade(self, sd, stroke) ==
    ShEffect(self, sd,
             [stroke EXCEPT !.thickness =
                 [k \in 1..Len(stroke.fes) |->
                     set_thickness(self, stroke.fes[k], self.outer, self.inner)]])

\* DashedLineShader as an entry of the list
DashedLineShader_entry(pattern) ==
    [kind |-> "DashedLineShader", outer |-> Zero, inner |-> Zero,
     persp_camera |-> FALSE, pattern |-> pattern]

\* The for loop of DashedLineShader.shade from the k-th vertex on.
RECURSIVE DashLoop(_, _, _, _, _)
DashLoop(self, k, start, visible, attr) ==
    IF k > Len(attr) THEN attr
    ELSE LET b == DashBody(self, k, start, visible, attr[k])
         IN  DashLoop(self, k + 1, b.start, b.visible, [attr EXCEPT ![k] = b.attr])

\* DashedLineShader.shade
DashedLineShader_shade_resuming(self, sd, stroke) ==
    LET n == Len(self.pattern)
        used == Len(stroke.visible)
    IN  ShEffect([self EXCEPT !.pattern = [i \in 1..n |-> self.pattern[((i - 1 + used) % n) + 1]]],
                 sd,
                 [stroke EXCEPT !.visible = DashLoop(self, 1, 0, TRUE, stroke.visible)])
DashedLineShader_shade(self, sd, stroke) ==
    ShEffect(self, sd,
             [stroke EXCEPT !.visible = DashLoop(self, 1, 0, TRUE, stroke.visible)])

\* shader.shade(stroke) for an entry of the list
Shade_call(self, sd, stroke) ==
    IF self.kind = "BaseThicknessShader" THEN BaseThicknessShader_shade(self, sd, stroke)
    ELSE DashedLineShader_shade(self, sd, stroke)

\* The feature edges under the vertices: a BORDER edge seen from the back
\* and an edge that is neither BORDER nor SILHOUETTE.
ShEdges ==
    { [border |-> TRUE, silhouette |-> FALSE, is_smooth |-> FALSE,
       view_dot |-> 1, normal_left_z |-> -1],
      [border |-> FALSE, silhouette |-> FALSE, is_smooth |-> FALSE,
       view_dot |-> 1, normal_left_z |-> 1] }

\* A stroke as the chaining hands it to the shaders: every vertex visible,
\* thickness (1, 1).
NewStroke(fes) ==
    [fes |-> fes, thickness |-> [k \in 1..Len(fes) |-> <<One, One>>],
     visible |-> [k \in 1..Len(fes) |-> TRUE]]

ShStrokes == { NewStroke(fes) : fes \in UNION { [1..n -> ShEdges] : n \in 1..MaxShVerts } }

\* process: the base thickness shader, then the dashed line shader.
ShLists ==
    { <<BaseThicknessShader_fields(Two, position, <<1, 4>>), DashedLineShader_entry(pattern)>> :
        position \in {"INSIDE", "RELATIVE"}, pattern \in {<<1, 1>>, <<2, 1>>} }

ShIdle ==
    /\ sh_shaders = <<>>
    /\ sh_seed = [t |-> 0]
    /\ sh_strokes = <<>>
    /\ sh_stage = <<>>

ShInit ==
    /\ sh_shaders \in ShLists
    /\ \E clock \in SeedClocks : sh_seed = Seed_init(clock)
    /\ sh_strokes \in [1..MaxStrokes -> ShStrokes]
    /\ sh_stage = [j \in 1..MaxStrokes |-> 0]

\* The next shader of the list shades stroke j.
ShadeNext ==
    \E j \in 1..Len(sh_strokes) :
        /\ sh_stage[j] < Len(sh_shaders)
        /\ LET i == sh_stage[j] + 1
               e == Shade_call(sh_shaders[i], sh_seed, sh_strokes[j])
           IN  /\ sh_shaders' = [sh_shaders EXCEPT ![i] = e.self]
               /\ sh_seed' = e.seed
               /\ sh_strokes' = [sh_strokes EXCEPT ![j] = e.stroke]
        /\ sh_stage' = [sh_stage EXCEPT ![j] = @ + 1]

(***************************************************************************)
(* Transform2DShader                                                        *)
(*                                                                          *)
(* Points are pairs of exact rationals.  The rotation angle is 0, so        *)
(* cos_theta = 1 and sin_theta = 0.                                         *)
(***************************************************************************)
\* Most vertices of a stroke, and the largest x coordinate of a vertex.
MaxTfVerts == 3
MaxTfX == 4

PAdd(p, q) == <<RAdd(p[1], q[1]), RAdd(p[2], q[2])>>
PSub(p, q) == <<RSub(p[1], q[1]), RSub(p[2], q[2])>>
PScale(a, p) == <<RMul(a, p[1]), RMul(a, p[2])>>

\* The index of svert when the loop over pairwise(stroke) ends: the first
\* vertex after stroke[0] whose u exceeds pivot_u, or the last vertex.
RECURSIVE Transform2D_break(_, _, _)
Transform2D_break(stroke, pivot_u, k) ==
    IF k >= Len(stroke) THEN k
    ELSE IF RLess(pivot_u, stroke[k].u) THEN k
    ELSE Transform2D_break(stroke, pivot_u, k + 1)

\* Transform2DShader.shade, pivot 'PARAM': the pivot, or the exception of the
\* read of svert after a loop that never ran.
Transform2D_pivot(self, stroke) ==
    IF RLess(self.pivot_u, stroke[1].u) THEN [exc |-> "none", pivot |-> stroke[1].point]
    ELSE IF Len(pairwise(stroke)) = 0 THEN
        [exc |-> "UnboundLocalError", pivot |-> <<Zero, Zero>>]
    ELSE LET k == Transform2D_break(stroke, self.pivot_u, 2)
             svert == stroke[k]
             prev == stroke[k - 1]
         IN  [exc |-> "none",
              pivot |-> PAdd(svert.point,
                             PScale(RSub(svert.u, self.pivot_u),
                                    PSub(prev.point, svert.point)))]

\* The scaling loop, for one point.
Transform2D_apply(self, pivot, point) ==
    LET p == PSub(point, pivot)
    IN  PAdd(<<RMul(p[1], self.scale[1]), RMul(p[2], self.scale[2])>>, pivot)

\* Strokes along the x axis: vertices at increasing integer x, u the
\* curvilinear abscissa divided by the length (0 for a lone vertex).
TfStroke(xs) ==
    [i \in 1..Len(xs) |->
        [u |-> IF Len(xs) = 1 THEN Zero ELSE Rat(xs[i] - xs[1], xs[Len(xs)] - xs[1]),
         point |-> <<Rat(xs[i], 1), Zero>>]]

TfStrokes ==
    { TfStroke(xs) : xs \in { s \in UNION { [1..n -> 0..MaxTfX] : n \in 1..MaxTfVerts } :
                                \A i \in 1..(Len(s) - 1) : s[i] < s[i + 1] } }

TfIdle ==
    /\ tf_self = [pivot |-> "PARAM", pivot_u |-> Zero, scale |-> <<One, One>>]
    /\ tf_stroke = <<>>
    /\ tf_out = [done |-> FALSE, exc |-> "none", pivot |-> <<Zero, Zero>>, points |-> <<>>]

TfInit ==
    /\ tf_self \in [pivot : {"PARAM"}, pivot_u : {Rat(n, 4) : n \in 0..4},
                    scale : {<<One, One>>, <<Two, One>>}]
    /\ tf_stroke \in TfStrokes
    /\ tf_out = [done |-> FALSE, exc |-> "none", pivot |-> <<Zero, Zero>>, points |-> <<>>]

\* shade(stroke); tf_stroke keeps the stroke as it was handed over and
\* tf_out.points are the points of its vertices afterwards.
ShadeTransform ==
    /\ ~tf_out.done
    /\ LET r == Transform2D_pivot(tf_self, tf_stroke)
       IN  tf_out' = [done |-> TRUE, exc |-> r.exc, pivot |-> r.pivot,
                      points |-> [i \in 1..Len(tf_stroke) |->
                                    IF r.exc # "none" THEN tf_stroke[i].point
                                    ELSE Transform2D_apply(tf_self, r.pivot,
                                                           tf_stroke[i].point)]]
    /\ UNCHANGED <<tf_self, tf_stroke>>

(***************************************************************************)
(* One method of a SplitPatternController called until it returns True      *)
(***************************************************************************)
\* Longest dash or gap of a split pattern, and the calls made at most.
MaxSplitLen == 3
MaxRpCalls == 8

\* process: the patterns it can hand to SplitPatternController, of one or
\* two dash/gap pairs of positive lengths.
RpPatterns ==
    { <<d, g>> : d \in 1..MaxSplitLen, g \in 1..MaxSplitLen }
        \cup { <<d, g, e, h>> : d \in 1..MaxSplitLen, g \in 1..MaxSplitLen,
                                e \in 1..MaxSplitLen, h \in 1..MaxSplitLen }

RpIdle ==
    /\ rp_controller = Controller_new(<<1, 1>>, Sampling)
    /\ rp_kind = "none"
    /\ rp_ret = FALSE
    /\ rp_calls = 0

\* controller = SplitPatternController(pattern, sampling)
RpInit ==
    /\ rp_controller \in { Controller_new(p, Sampling) : p \in RpPatterns }
    /\ rp_kind \in {"stop", "start"}
    /\ rp_ret = FALSE
    /\ rp_calls = 0

\* SplitPatternStoppingUP0D.__call__, while no call has returned True
RepeatStop ==
    /\ rp_kind = "stop"
    /\ ~rp_ret
    /\ rp_calls < MaxRpCalls
    /\ rp_controller' = stop_after(rp_controller)
    /\ rp_ret' = stop_hit(rp_controller)
    /\ rp_calls' = rp_calls + 1
    /\ UNCHANGED rp_kind

\* SplitPatternStartingUP0D.__call__, while no call has returned True
RepeatStart ==
    /\ rp_kind = "start"
    /\ ~rp_ret
    /\ rp_calls < MaxRpCalls
    /\ rp_controller' = start_after(rp_controller)
    /\ rp_ret' = start_hit(rp_controller)
    /\ rp_calls' = rp_calls + 1
    /\ UNCHANGED rp_kind

(***************************************************************************)
(* Length2DThresholdUP0D on chains sampled at t = 1, 2, 3, ...              *)
(*                                                                          *)
(* The instance of process is called on the samples of one chain after the  *)
(* other; beside it runs an instance with the same limit that is new at     *)
(* the start of each chain.  The limit is kept doubled, as above.           *)
(***************************************************************************)
\* Most samples of a chain, and the largest doubled limit.
MaxTwLen == 4
MaxTwLimit2 == 4

TwIdle ==
    /\ tw_used = Length2D_new(0)
    /\ tw_fresh = Length2D_new(0)
    /\ tw_walk = [chain |-> 0, len |-> 0, t |-> 0]
    /\ tw_ret = [used |-> FALSE, fresh |-> FALSE]

\* process: Length2DThresholdUP0D(linestyle.split_length)
TwInit ==
    /\ \E limit2 \in 1..MaxTwLimit2 :
          /\ tw_used = Length2D_new(limit2)
          /\ tw_fresh = Length2D_new(limit2)
    /\ \E len \in 1..MaxTwLen : tw_walk = [chain |-> 1, len |-> len, t |-> 0]
    /\ tw_ret = [used |-> FALSE, fresh |-> FALSE]

\* The predicate is called at the next sample of the chain.
TwVisit ==
    /\ tw_walk.t < tw_walk.len
    /\ LET t == tw_walk.t + 1
       IN  /\ tw_walk' = [tw_walk EXCEPT !.t = t]
           /\ tw_ret' = [used |-> Length2D_ret(tw_used, t),
                         fresh |-> Length2D_ret(tw_fresh, t)]
           /\ tw_used' = Length2D_after(tw_used, t)
           /\ tw_fresh' = Length2D_after(tw_fresh, t)

\* The split goes on to the next chain with the same predicate object.
TwNextChain ==
    /\ tw_walk.t = tw_walk.len
    /\ tw_walk.chain < MaxChains
    /\ \E len \in 1..MaxTwLen :
          tw_walk' = [chain |-> tw_walk.chain + 1, len |-> len, t |-> 0]
    /\ tw_fresh' = Length2D_new(tw_used.length_limit2)
    /\ UNCHANGED <<tw_used, tw_ret>>

(***************************************************************************)
(* SplitPatternController under Operators.sequential_split(start, stop, s)  *)
(*                                                                          *)
(* Per chain the split calls the stopping predicate until it returns True,  *)
(* then the starting predicate until it returns True, and so on; the chain  *)
(* can end after any call, and the next chain begins with stop().           *)
(***************************************************************************)
\* Most calls on one chain.
MaxDrCalls == 5

DrIdle ==
    /\ dr_controller = Controller_new(<<1, 1>>, Sampling)
    /\ dr_phase = "none"
    /\ dr_new = FALSE
    /\ dr_chain = 0
    /\ dr_calls = 0

DrInit ==
    /\ dr_controller \in { Controller_new(p, Sampling) : p \in RpPatterns }
    /\ dr_phase = "stop"
    /\ dr_new = TRUE
    /\ dr_chain = 1
    /\ dr_calls = 0

\* SplitPatternStoppingUP0D.__call__
DriveStop ==
    /\ dr_phase = "stop"
    /\ dr_calls < MaxDrCalls
    /\ dr_controller' = stop_after(dr_controller)
    /\ dr_phase' = IF stop_hit(dr_controller) THEN "start" ELSE "stop"
    /\ dr_new' = FALSE
    /\ dr_calls' = dr_calls + 1
    /\ UNCHANGED dr_chain

\* SplitPatternStartingUP0D.__call__
DriveStart ==
    /\ dr_phase = "start"
    /\ dr_calls < MaxDrCalls
    /\ dr_controller' = start_after(dr_controller)
    /\ dr_phase' = IF start_hit(dr_controller) THEN "stop" ELSE "start"
    /\ dr_calls' = dr_calls + 1
    /\ UNCHANGED <<dr_new, dr_chain>>

\* The chain ends; the split turns to the next chain with the same predicates.
EndChain ==
    /\ ~dr_new
    /\ dr_chain < MaxChains
    /\ dr_chain' = dr_chain + 1
    /\ dr_phase' = "stop"
    /\ dr_new' = TRUE
    /\ dr_calls' = 0
    /\ UNCHANGED dr_controller

(***************************************************************************)
(* Specifications                                                           *)
(***************************************************************************)

InitSeed ==
    SeedInit /\ CtlIdle /\ LenIdle /\ MbIdle /\ BlIdle /\ ThIdle /\ SelIdle /\ ProcIdle /\ DistIdle /\ BdIdle /\ CvIdle /\ GclIdle /\ DlIdle /\ FmIdle /\ ShIdle /\ TfIdle /\ RpIdle /\ TwIdle /\ DrIdle
NextSeed ==
    SeedGet /\ UNCHANGED <<ctlVars, lenVars, mbVars, blVars, thVars, selVars, procVars, distVars, bdVars, cvVars, gclVars, dlVars, fmVars, shVars, tfVars, rpVars, twVars, drVars>>
SpecSeed == InitSeed /\ [][NextSeed]_vars

InitController ==
    CtlInit /\ SeedIdle /\ LenIdle /\ MbIdle /\ BlIdle /\ ThIdle /\ SelIdle /\ ProcIdle /\ DistIdle /\ BdIdle /\ CvIdle /\ GclIdle /\ DlIdle /\ FmIdle /\ ShIdle /\ TfIdle /\ RpIdle /\ TwIdle /\ DrIdle
NextController ==
    \/ Start /\ UNCHANGED <<seedVars, lenVars, mbVars, blVars, thVars, selVars, procVars, distVars, bdVars, cvVars, gclVars, dlVars, fmVars, shVars, tfVars, rpVars, twVars, drVars>>
    \/ Stop /\ UNCHANGED <<seedVars, lenVars, mbVars, blVars, thVars, selVars, procVars, distVars, bdVars, cvVars, gclVars, dlVars, fmVars, shVars, tfVars, rpVars, twVars, drVars>>
SpecController == InitController /\ [][NextController]_vars

InitLength ==
    LenInit /\ SeedIdle /\ CtlIdle /\ MbIdle /\ BlIdle /\ ThIdle /\ SelIdle /\ ProcIdle /\ DistIdle /\ BdIdle /\ CvIdle /\ GclIdle /\ DlIdle /\ FmIdle /\ ShIdle /\ TfIdle /\ RpIdle /\ TwIdle /\ DrIdle
NextLength ==
    \/ VisitPoint /\ UNCHANGED <<seedVars, ctlVars, mbVars, blVars, thVars, selVars, procVars, distVars, bdVars, cvVars, gclVars, dlVars, fmVars, shVars, tfVars, rpVars, twVars, drVars>>
    \/ NextChain /\ UNCHANGED <<seedVars, ctlVars, mbVars, blVars, thVars, selVars, procVars, distVars, bdVars, cvVars, gclVars, dlVars, fmVars, shVars, tfVars, rpVars, twVars, drVars>>
SpecLength == InitLength /\ [][NextLength]_vars

InitMaterial ==
    MbInit /\ SeedIdle /\ CtlIdle /\ LenIdle /\ BlIdle /\ ThIdle /\ SelIdle /\ ProcIdle /\ DistIdle /\ BdIdle /\ CvIdle /\ GclIdle /\ DlIdle /\ FmIdle /\ ShIdle /\ TfIdle /\ RpIdle /\ TwIdle /\ DrIdle
NextMaterial ==
    MbCallAny /\ UNCHANGED <<seedVars, ctlVars, lenVars, blVars, thVars, selVars, procVars, distVars, bdVars, cvVars, gclVars, dlVars, fmVars, shVars, tfVars, rpVars, twVars, drVars>>
SpecMaterial == InitMaterial /\ [][NextMaterial]_vars

InitBlend ==
    BlInit /\ SeedIdle /\ CtlIdle /\ LenIdle /\ MbIdle /\ ThIdle /\ SelIdle /\ ProcIdle /\ DistIdle /\ BdIdle /\ CvIdle /\ GclIdle /\ DlIdle /\ FmIdle /\ ShIdle /\ TfIdle /\ RpIdle /\ TwIdle /\ DrIdle
NextBlend ==
    Blend /\ UNCHANGED <<seedVars, ctlVars, lenVars, mbVars, thVars, selVars, procVars, distVars, bdVars, cvVars, gclVars, dlVars, fmVars, shVars, tfVars, rpVars, twVars, drVars>>
SpecBlend == InitBlend /\ [][NextBlend]_vars

InitThickness ==
    ThInit /\ SeedIdle /\ CtlIdle /\ LenIdle /\ MbIdle /\ BlIdle /\ SelIdle /\ ProcIdle /\ DistIdle /\ BdIdle /\ CvIdle /\ GclIdle /\ DlIdle /\ FmIdle /\ ShIdle /\ TfIdle /\ RpIdle /\ TwIdle /\ DrIdle
NextThickness ==
    ShadeThickness /\ UNCHANGED <<seedVars, ctlVars, lenVars, mbVars, blVars, selVars, procVars, distVars, bdVars, cvVars, gclVars, dlVars, fmVars, shVars, tfVars, rpVars, twVars, drVars>>
SpecThickness == InitThickness /\ [][NextThickness]_vars

InitSelect ==
    SelInit /\ SeedIdle /\ CtlIdle /\ LenIdle /\ MbIdle /\ BlIdle /\ ThIdle /\ ProcIdle /\ DistIdle /\ BdIdle /\ CvIdle /\ GclIdle /\ DlIdle /\ FmIdle /\ ShIdle /\ TfIdle /\ RpIdle /\ TwIdle /\ DrIdle
NextSelect ==
    Select /\ UNCHANGED <<seedVars, ctlVars, lenVars, mbVars, blVars, thVars, procVars, distVars, bdVars, cvVars, gclVars, dlVars, fmVars, shVars, tfVars, rpVars, twVars, drVars>>
SpecSelect == InitSelect /\ [][NextSelect]_vars

InitProcess ==
    ProcInit /\ SeedIdle /\ CtlIdle /\ LenIdle /\ MbIdle /\ BlIdle /\ ThIdle /\ SelIdle /\ DistIdle /\ BdIdle /\ CvIdle /\ GclIdle /\ DlIdle /\ FmIdle /\ ShIdle /\ TfIdle /\ RpIdle /\ TwIdle /\ DrIdle
NextProcess ==
    \/ BuildShaders /\ UNCHANGED <<seedVars, ctlVars, lenVars, mbVars, blVars, thVars, selVars, distVars, bdVars, cvVars, gclVars, dlVars, fmVars, shVars, tfVars, rpVars, twVars, drVars>>
    \/ CreateStroke /\ UNCHANGED <<seedVars, ctlVars, lenVars, mbVars, blVars, thVars, selVars, distVars, bdVars, cvVars, gclVars, dlVars, fmVars, shVars, tfVars, rpVars, twVars, drVars>>
    \/ ShadeStroke /\ UNCHANGED <<seedVars, ctlVars, lenVars, mbVars, blVars, thVars, selVars, distVars, bdVars, cvVars, gclVars, dlVars, fmVars, shVars, tfVars, rpVars, twVars, drVars>>
SpecProcess == InitProcess /\ [][NextProcess]_vars

InitDistance ==
    DistInit /\ SeedIdle /\ CtlIdle /\ LenIdle /\ MbIdle /\ BlIdle /\ ThIdle /\ SelIdle /\ ProcIdle /\ BdIdle /\ CvIdle /\ GclIdle /\ DlIdle /\ FmIdle /\ ShIdle /\ TfIdle /\ RpIdle /\ TwIdle /\ DrIdle
NextDistance ==
    YieldDistance /\ UNCHANGED <<seedVars, ctlVars, lenVars, mbVars, blVars, thVars, selVars, procVars, bdVars, cvVars, gclVars, dlVars, fmVars, shVars, tfVars, rpVars, twVars, drVars>>
SpecDistance == InitDistance /\ [][NextDistance]_vars

InitBound ==
    BdInit /\ SeedIdle /\ CtlIdle /\ LenIdle /\ MbIdle /\ BlIdle /\ ThIdle /\ SelIdle /\ ProcIdle /\ DistIdle /\ CvIdle /\ GclIdle /\ DlIdle /\ FmIdle /\ ShIdle /\ TfIdle /\ RpIdle /\ TwIdle /\ DrIdle
NextBound ==
    CallBound /\ UNCHANGED <<seedVars, ctlVars, lenVars, mbVars, blVars, thVars, selVars, procVars, distVars, cvVars, gclVars, dlVars, fmVars, shVars, tfVars, rpVars, twVars, drVars>>
SpecBound == InitBound /\ [][NextBound]_vars

InitCurvature ==
    CvInit /\ SeedIdle /\ CtlIdle /\ LenIdle /\ MbIdle /\ BlIdle /\ ThIdle /\ SelIdle /\ ProcIdle /\ DistIdle /\ BdIdle /\ GclIdle /\ DlIdle /\ FmIdle /\ ShIdle /\ TfIdle /\ RpIdle /\ TwIdle /\ DrIdle
NextCurvature ==
    CallCurvature /\ UNCHANGED <<seedVars, ctlVars, lenVars, mbVars, blVars, thVars, selVars, procVars, distVars, bdVars, gclVars, dlVars, fmVars, shVars, tfVars, rpVars, twVars, drVars>>
SpecCurvature == InitCurvature /\ [][NextCurvature]_vars

InitChainLength ==
    GclInit /\ SeedIdle /\ CtlIdle /\ LenIdle /\ MbIdle /\ BlIdle /\ ThIdle /\ SelIdle /\ ProcIdle /\ DistIdle /\ BdIdle /\ CvIdle /\ DlIdle /\ FmIdle /\ ShIdle /\ TfIdle /\ RpIdle /\ TwIdle /\ DrIdle
NextChainLength ==
    \/ GclForward /\ UNCHANGED <<seedVars, ctlVars, lenVars, mbVars, blVars, thVars, selVars, procVars, distVars, bdVars, cvVars, dlVars, fmVars, shVars, tfVars, rpVars, twVars, drVars>>
    \/ GclBackward /\ UNCHANGED <<seedVars, ctlVars, lenVars, mbVars, blVars, thVars, selVars, procVars, distVars, bdVars, cvVars, dlVars, fmVars, shVars, tfVars, rpVars, twVars, drVars>>
SpecChainLength == InitChainLength /\ [][NextChainLength]_vars

InitDash ==
    DlInit /\ SeedIdle /\ CtlIdle /\ LenIdle /\ MbIdle /\ BlIdle /\ ThIdle /\ SelIdle /\ ProcIdle /\ DistIdle /\ BdIdle /\ CvIdle /\ GclIdle /\ FmIdle /\ ShIdle /\ TfIdle /\ RpIdle /\ TwIdle /\ DrIdle
NextDash ==
    DashVertex /\ UNCHANGED <<seedVars, ctlVars, lenVars, mbVars, blVars, thVars, selVars, procVars, distVars, bdVars, cvVars, gclVars, fmVars, shVars, tfVars, rpVars, twVars, drVars>>
SpecDash == InitDash /\ [][NextDash]_vars

InitFaceMark ==
    FmInit /\ SeedIdle /\ CtlIdle /\ LenIdle /\ MbIdle /\ BlIdle /\ ThIdle /\ SelIdle /\ ProcIdle /\ DistIdle /\ BdIdle /\ CvIdle /\ GclIdle /\ DlIdle /\ ShIdle /\ TfIdle /\ RpIdle /\ TwIdle /\ DrIdle
NextFaceMark ==
    \/ CallFaceMarkBoth /\ UNCHANGED <<seedVars, ctlVars, lenVars, mbVars, blVars, thVars, selVars, procVars, distVars, bdVars, cvVars, gclVars, dlVars, shVars, tfVars, rpVars, twVars, drVars>>
    \/ CallFaceMarkOne /\ UNCHANGED <<seedVars, ctlVars, lenVars, mbVars, blVars, thVars, selVars, procVars, distVars, bdVars, cvVars, gclVars, dlVars, shVars, tfVars, rpVars, twVars, drVars>>
SpecFaceMark == InitFaceMark /\ [][NextFaceMark]_vars

InitShading ==
    ShInit /\ SeedIdle /\ CtlIdle /\ LenIdle /\ MbIdle /\ BlIdle /\ ThIdle /\ SelIdle /\ ProcIdle /\ DistIdle /\ BdIdle /\ CvIdle /\ GclIdle /\ DlIdle /\ FmIdle /\ TfIdle /\ RpIdle /\ TwIdle /\ DrIdle
NextShading ==
    ShadeNext /\ UNCHANGED <<seedVars, ctlVars, lenVars, mbVars, blVars, thVars, selVars, procVars, distVars, bdVars, cvVars, gclVars, dlVars, fmVars, tfVars, rpVars, twVars, drVars>>
SpecShading == InitShading /\ [][NextShading]_vars

InitTransform ==
    TfInit /\ SeedIdle /\ CtlIdle /\ LenIdle /\ MbIdle /\ BlIdle /\ ThIdle /\ SelIdle /\ ProcIdle /\ DistIdle /\ BdIdle /\ CvIdle /\ GclIdle /\ DlIdle /\ FmIdle /\ ShIdle /\ RpIdle /\ TwIdle /\ DrIdle
NextTransform ==
    ShadeTransform /\ UNCHANGED <<seedVars, ctlVars, lenVars, mbVars, blVars, thVars, selVars, procVars, distVars, bdVars, cvVars, gclVars, dlVars, fmVars, shVars, rpVars, twVars, drVars>>
SpecTransform == InitTransform /\ [][NextTransform]_vars

InitRepeat ==
    RpInit /\ SeedIdle /\ CtlIdle /\ LenIdle /\ MbIdle /\ BlIdle /\ ThIdle /\ SelIdle /\ ProcIdle /\ DistIdle /\ BdIdle /\ CvIdle /\ GclIdle /\ DlIdle /\ FmIdle /\ ShIdle /\ TfIdle /\ TwIdle /\ DrIdle
NextRepeat ==
    \/ RepeatStop /\ UNCHANGED <<seedVars, ctlVars, lenVars, mbVars, blVars, thVars, selVars, procVars, distVars, bdVars, cvVars, gclVars, dlVars, fmVars, shVars, tfVars, twVars, drVars>>
    \/ RepeatStart /\ UNCHANGED <<seedVars, ctlVars, lenVars, mbVars, blVars, thVars, selVars, procVars, distVars, bdVars, cvVars, gclVars, dlVars, fmVars, shVars, tfVars, twVars, drVars>>
SpecRepeat == InitRepeat /\ [][NextRepeat]_vars

InitTwin ==
    TwInit /\ SeedIdle /\ CtlIdle /\ LenIdle /\ MbIdle /\ BlIdle /\ ThIdle /\ SelIdle /\ ProcIdle /\ DistIdle /\ BdIdle /\ CvIdle /\ GclIdle /\ DlIdle /\ FmIdle /\ ShIdle /\ TfIdle /\ RpIdle /\ DrIdle
NextTwin ==
    \/ TwVisit /\ UNCHANGED <<seedVars, ctlVars, lenVars, mbVars, blVars, thVars, selVars, procVars, distVars, bdVars, cvVars, gclVars, dlVars, fmVars, shVars, tfVars, rpVars, drVars>>
    \/ TwNextChain /\ UNCHANGED <<seedVars, ctlVars, lenVars, mbVars, blVars, thVars, selVars, procVars, distVars, bdVars, cvVars, gclVars, dlVars, fmVars, shVars, tfVars, rpVars, drVars>>
SpecTwin == InitTwin /\ [][NextTwin]_vars

InitDrive ==
    DrInit /\ SeedIdle /\ CtlIdle /\ LenIdle /\ MbIdle /\ BlIdle /\ ThIdle /\ SelIdle /\ ProcIdle /\ DistIdle /\ BdIdle /\ CvIdle /\ GclIdle /\ DlIdle /\ FmIdle /\ ShIdle /\ TfIdle /\ RpIdle /\ TwIdle
NextDrive ==
    \/ DriveStop /\ UNCHANGED <<seedVars, ctlVars, lenVars, mbVars, blVars, thVars, selVars, procVars, distVars, bdVars, cvVars, gclVars, dlVars, fmVars, shVars, tfVars, rpVars, twVars>>
    \/ DriveStart /\ UNCHANGED <<seedVars, ctlVars, lenVars, mbVars, blVars, thVars, selVars, procVars, distVars, bdVars, cvVars, gclVars, dlVars, fmVars, shVars, tfVars, rpVars, twVars>>
    \/ EndChain /\ UNCHANGED <<seedVars, ctlVars, lenVars, mbVars, blVars, thVars, selVars, procVars, distVars, bdVars, cvVars, gclVars, dlVars, fmVars, shVars, tfVars, rpVars, twVars>>
SpecDrive == InitDrive /\ [][NextDrive]_vars

(***************************************************************************)
(* Claims                                                                   *)
(***************************************************************************)

\* C1: with pattern [10, 5] and sampling 1.0, as long as stop() has not been
\* called, start() answers true on exactly the calls numbered 15, 30, 45, ...
C1_StartEveryFifteen ==
    (ctl_pattern = <<10, 5>> /\ ctl_stops = 0 /\ ctl_op = "start")
        => (ctl_ret = (ctl_starts % 15 = 0))

C1_Witness ==
    /\ ctl_pattern = <<10, 5>>
    /\ ctl_stops = 0
    /\ ctl_op = "start"
    /\ ctl_starts = 45
    /\ ctl_ret = TRUE

MaterialChanges ==
    { k \in 1..(Len(mb_chain) - 1) :
        (IF mb_chain[k].is_smooth THEN mb_chain[k].material_index
                                  ELSE mb_chain[k].material_index_left)
        # (IF mb_chain[k + 1].is_smooth THEN mb_chain[k + 1].material_index
                                        ELSE mb_chain[k + 1].material_index_left) }

\* C3: on a chain whose material index changes exactly once, at an interior
\* vertex v, MaterialBoundaryUP0D answers true at v and false at every other
\* vertex; at the first and the last vertex of any chain it answers false
\* and raises nothing.
C3_MaterialBoundary ==
    mb_at >= 0 =>
        /\ (mb_at \in {0, Len(mb_chain)} => (mb_ret = FALSE /\ mb_exc = "none"))
        /\ (Cardinality(MaterialChanges) = 1 =>
               (mb_exc = "none" /\ (mb_ret = (mb_at \in MaterialChanges))))

C3_Witness ==
    /\ Len(mb_chain) = 4
    /\ MaterialChanges = {2}
    /\ mb_at = 2
    /\ mb_ret = TRUE
    /\ mb_chain[2].is_smooth
    /\ ~mb_chain[3].is_smooth

\* The closed forms of the blend modes, over the integers: with f = fn/fd,
\* v1 = an/ad and v2 = bn/bd, the value the claim gives for each mode, as a
\* fraction <<numerator, denominator>> that need not be in lowest terms.
C4_Expected(mode, f, a, b) ==
    LET fn == f[1]  fd == f[2]
        an == a[1]  ad == a[2]
        bn == b[1]  bd == b[2]
        fmn == fd - fn     \* 1 - f = fmn/fd
    IN  CASE mode = "MIX" -> <<fmn * an * bd + fn * bn * ad, fd * ad * bd>>
          [] mode = "ADD" -> <<an * fd * bd + fn * bn * ad, ad * fd * bd>>
          [] mode = "MULTIPLY" -> <<an * (fmn * bd + fn * bn), ad * fd * bd>>
          [] mode = "SUBTRACT" -> <<an * fd * bd - fn * bn * ad, ad * fd * bd>>
          [] mode = "DIVIDE" ->
                IF bn = 0 THEN a ELSE <<an * (fmn * bn + fn * bd), ad * fd * bn>>
          [] mode = "DIFFERENCE" ->
                <<fmn * an * bd + fn * Abs(an * bd - bn * ad), fd * ad * bd>>
          [] mode = "MININUM" ->
                IF fn * bn * ad <= an * fd * bd THEN <<fn * bn, fd * bd>> ELSE a
          [] mode = "MAXIMUM" ->
                IF fn * bn * ad >= an * fd * bd THEN <<fn * bn, fd * bd>> ELSE a

\* C4: for each of the eight blend modes blend(v1, v2) returns, without
\* raising, the value of the mode's formula; DIVIDE by v2 = 0 returns v1;
\* MIX returns v1 at influence 0 and v2 at influence 1.
C4_BlendFormulas ==
    (bl_out.done /\ bl_in.blend \in Blends) =>
        LET e == C4_Expected(bl_in.blend, bl_in.influence, bl_in.v1, bl_in.v2)
        IN  /\ bl_out.exc = "none"
            /\ bl_out.value[1] * e[2] = e[1] * bl_out.value[2]
            /\ (bl_in.blend = "MIX" /\ bl_in.influence = Zero) => bl_out.value = bl_in.v1
            /\ (bl_in.blend = "MIX" /\ bl_in.influence = One) => bl_out.value = bl_in.v2
            /\ (bl_in.blend = "DIVIDE" /\ bl_in.v2 = Zero) => bl_out.value = bl_in.v1

C4_Witness ==
    /\ bl_out.done
    /\ bl_in.blend = "DIVIDE"
    /\ bl_in.v2 = Zero
    /\ bl_in.influence = <<1, 4>>
    /\ bl_in.v1 = <<-3, 2>>
    /\ bl_out.exc = "none"
    /\ bl_out.value = bl_in.v1

\* C5: blend_thickness returns (v, 0) for OUTSIDE, (0, v) for INSIDE,
\* (v/2, v/2) for CENTER and (v*r, v*(1-r)) for RELATIVE, where
\* v = blend(old outer + old inner, raw value); and whatever the edge nature,
\* the outer and inner thickness that set_thickness stores sum to v.
C5_ThicknessSplit ==
    (th_log.done /\ th_shader.position \in Positions /\ th_shader.blend \in Blends) =>
        LET v == blend(th_shader.blend, th_shader.influence,
                       RAdd(th_log.old[1], th_log.old[2]), th_raw).value
            r == th_shader.ratio
            o == th_log.split[1]
            n == th_log.split[2]
            so == th_vert.thickness[1]
            si == th_vert.thickness[2]
        IN  /\ th_log.exc = "none"
            /\ th_shader.position = "OUTSIDE" => (o = v /\ n = Zero)
            /\ th_shader.position = "INSIDE" => (o = Zero /\ n = v)
            /\ th_shader.position = "CENTER" =>
                  (2 * o[1] * v[2] = v[1] * o[2] /\ 2 * n[1] * v[2] = v[1] * n[2])
            /\ th_shader.position = "RELATIVE" =>
                  /\ o[1] * v[2] * r[2] = v[1] * r[1] * o[2]
                  /\ n[1] * v[2] * r[2] = v[1] * (r[2] - r[1]) * n[2]
            /\ (so[1] * si[2] + si[1] * so[2]) * v[2] = v[1] * so[2] * si[2]

C5_Witness ==
    /\ th_log.done
    /\ th_log.exc = "none"
    /\ th_shader.position = "RELATIVE"
    /\ th_shader.ratio = <<1, 4>>
    /\ th_shader.blend = "MULTIPLY"
    /\ ~th_vert.fe.border
    /\ ~th_vert.fe.silhouette
    /\ th_log.split[1] # th_log.split[2]
    /\ th_vert.thickness[1] = th_vert.thickness[2]
    /\ th_vert.thickness[1] # Zero

\* C6: when none of the selection criteria groups is enabled on the lineset,
\* the predicate process hands to Operators.select accepts every curve, and
\* nothing is raised.
C6_NoCriteriaAcceptsAll ==
    (sel_out.done /\ NoneEnabled(lineset)) => (sel_out.exc = "none" /\ sel_out.accepted)

C6_Witness ==
    /\ sel_out.done
    /\ NoneEnabled(lineset)
    /\ sel_out.accepted
    /\ lineset.visibility = "VISIBLE"
    /\ lineset.face_mark_condition = "BOTH"
    /\ lineset.group = {"Cube"}
    /\ curve.qi = 2
    /\ curve.name = "Sphere"
    /\ ~curve.within_border

\* C7: Seed.get(seed) with seed >= 0 returns seed and leaves the counter
\* alone; with seed < 0 it sets the counter to (counter + 1) mod 2^15 and
\* returns the new counter; the counter always stays in [0, 2^15).
C7_SeedGet ==
    /\ [](seed.t \in 0..32767)
    /\ [][IF seed_arg' >= 0
            THEN seed_ret' = seed_arg' /\ seed'.t = seed.t
            ELSE seed'.t = (seed.t + 1) % 32768 /\ seed_ret' = seed'.t]_vars

C7_Witness == seed_arg = -1 /\ seed_ret = 0 /\ seed.t = 0

\* C8, as claimed: two negative-seed calls of Seed.get never receive the same
\* value, however many calls lie between them.
C8_AlwaysDistinct ==
    (seed_tagAt > 0 /\ seed_op = "get" /\ seed_arg < 0 /\ seed_negs > seed_tagAt)
        => seed_ret # seed_tag

\* C8, amended: two negative-seed calls of Seed.get receive distinct values
\* when the later one is fewer than 2^15 negative-seed calls after the
\* earlier one; calls with a non-negative seed in between do not matter.
C8_DistinctWithinPeriod ==
    (/\ seed_tagAt > 0
     /\ seed_op = "get"
     /\ seed_arg < 0
     /\ seed_negs > seed_tagAt
     /\ seed_negs - seed_tagAt < 32768)
        => seed_ret # seed_tag

C8_Witness ==
    /\ seed_tagAt > 0
    /\ seed_arg = -1
    /\ seed_negs - seed_tagAt = 32767
    /\ seed_ret # seed_tag

\* C9: every configuration error (unknown blend mode, unknown thickness
\* position, unknown pivot, None target) is raised while process builds the
\* shader list, so no shader has shaded a stroke when process ends with it.
C9_ErrorsBeforeShading ==
    (pc = "raised" /\ proc_exc = "ValueError") => shaded = 0

ModifiersOf(ls, group) ==
    IF group = "geometry" THEN ls.geometry_modifiers
    ELSE IF group = "color" THEN ls.color_modifiers
    ELSE IF group = "alpha" THEN ls.alpha_modifiers
    ELSE ls.thickness_modifiers

ModifierGroups == {"geometry", "color", "alpha", "thickness"}

GroupRank(group) ==
    IF group = "geometry" THEN 1
    ELSE IF group = "texture" THEN 2
    ELSE IF group = "basecolor" THEN 3
    ELSE IF group = "basethickness" THEN 4
    ELSE IF group = "color" THEN 5
    ELSE IF group = "alpha" THEN 6
    ELSE IF group = "thickness" THEN 7
    ELSE 8

\* C10: in the shader list handed to Operators.create (caps neither ROUND nor
\* SQUARE) the geometry shaders come first, then the base color shader and the
\* base thickness shader, then the color, the alpha and the thickness
\* modifiers' shaders, then the dash shader last; inside a group the shaders
\* are in configuration order; every enabled modifier has its shader and no
\* disabled modifier has one.
C10_ShaderOrder ==
    (pc \in {"create", "shade", "done"} /\ linestyle.caps \notin {"ROUND", "SQUARE"}) =>
        LET L == shaders_list
        IN  /\ \A i, j \in 1..Len(L) :
                  i < j => \/ GroupRank(L[i].group) < GroupRank(L[j].group)
                           \/ L[i].group = L[j].group /\ L[i].idx < L[j].idx
            /\ \A i \in 1..Len(L) :
                  L[i].group \in ModifierGroups =>
                      /\ L[i].idx \in 1..Len(ModifiersOf(linestyle, L[i].group))
                      /\ ModifiersOf(linestyle, L[i].group)[L[i].idx].use
            /\ \A g \in ModifierGroups :
                  \A k \in 1..Len(ModifiersOf(linestyle, g)) :
                      ModifiersOf(linestyle, g)[k].use =>
                          \E i \in 1..Len(L) : L[i].group = g /\ L[i].idx = k
            /\ \E i \in 1..Len(L) : /\ L[i].kind = "BaseColorShader"
                                    /\ L[i + 1].kind = "BaseThicknessShader"
            /\ (linestyle.use_dashed_line /\ linestyle.dash1 > 0 /\ linestyle.gap1 > 0)
                  => L[Len(L)].kind = "DashedLineShader"

C10_Witness ==
    /\ pc = "done"
    /\ stroke_no = 1
    /\ Len(linestyle.color_modifiers) = 1
    /\ ~linestyle.color_modifiers[1].use
    /\ Len(linestyle.alpha_modifiers) = 1
    /\ linestyle.use_texture
    /\ [k \in 1..Len(shaders_list) |-> shaders_list[k].kind] =
          <<"BlenderTextureShader", "StrokeTextureStepShader", "BaseColorShader",
            "BaseThicknessShader", "AlphaAlongStrokeShader", "DashedLineShader">>

\* C11: for range_min < range_max the distance iterators yield 0 for a vertex
\* at or below range_min, 1 at or above range_max and
\* (d - range_min) / (range_max - range_min) in between, so the yielded value
\* is nondecreasing in the distance.
C11_ClippedRatio ==
    dist_in.range_min < dist_in.range_max =>
        /\ \A k \in 1..Len(dist_out) :
              LET d == dist_in.stroke[k]
              IN  /\ dist_out[k].exc = "none"
                  /\ dist_out[k].value =
                        IF d <= dist_in.range_min THEN Zero
                        ELSE IF d >= dist_in.range_max THEN One
                        ELSE Rat(d - dist_in.range_min, dist_in.range_max - dist_in.range_min)
        /\ \A j, k \in 1..Len(dist_out) :
              dist_in.stroke[j] <= dist_in.stroke[k] =>
                  ~RLess(dist_out[k].value, dist_out[j].value)

\* C12: whatever range_min and range_max are (equal and inverted included),
\* the distance iterators yield values in [0, 1] and raise nothing.
C12_InUnitInterval ==
    \A k \in 1..Len(dist_out) :
        /\ dist_out[k].exc = "none"
        /\ ~RLess(dist_out[k].value, Zero)
        /\ ~RLess(One, dist_out[k].value)

C12_Witness ==
    /\ dist_in.range_min = dist_in.range_max
    /\ Len(dist_in.stroke) = 2
    /\ dist_in.stroke[1] = dist_in.range_min
    /\ dist_in.stroke[2] > dist_in.range_max
    /\ Len(dist_out) = 2
    /\ dist_out[1].value = One

\* C14: bound(lower, x, higher) returns what min(max(x, lower), higher)
\* returns, for all arguments, lower > higher included.
C14_BoundIsMinMax ==
    bd_out.done => bd_out.value = RMin(RMax(bd_in.x, bd_in.lower), bd_in.higher)

\* C13: stroke_curvature returns a value in [0, 1] for every triple of 2D
\* points; it returns 0 when the three points are colinear, 0 when two of
\* them coincide, and 0 at the first vertex of the stroke.
C13_CurvatureInUnitInterval ==
    cv_out.done =>
        LET p == cv_it.prev
            c == cv_it.current
            n == cv_it.next
            colinear == (c[1] - p[1]) * (n[2] - p[2]) = (c[2] - p[2]) * (n[1] - p[1])
        IN  /\ RLeq(Zero, cv_out.value)
            /\ RLeq(cv_out.value, One)
            /\ colinear => cv_out.value = Zero
            /\ (p = c \/ c = n \/ p = n) => cv_out.value = Zero
            /\ cv_it.is_begin => cv_out.value = Zero

C13_Witness ==
    /\ cv_out.done
    /\ ~cv_it.is_begin
    /\ ~cv_it.is_end
    /\ cv_it.prev = <<2, 2>>
    /\ cv_it.current = <<2, 0>>
    /\ cv_it.next = <<0, 0>>
    /\ cv_out.value = <<1, 2>>

RECURSIVE SumLens(_, _)
SumLens(lens, k) == IF k > Len(lens) THEN 0 ELSE lens[k] + SumLens(lens, k + 1)

\* C15: get_chain_length(ve, orientation) returns the sum of length_2d over
\* all curves of the chain that contains ve, each counted once, wherever ve
\* lies in the chain and whether the chain is open or closed.
C15_WholeChainLength ==
    gcl_pc = "done" => gcl_length = SumLens(gcl_chain.lens, 1)

\* C17: for a controller built from k dash/gap pairs [d1, g1, ..., dk, gk],
\* the boundary a firing of start() used is the next of d1+g1, ..., dk+gk in
\* cyclic order, and the boundary a firing of stop() used is the next of
\* d1, ..., dk in cyclic order.
C17_PatternCycle ==
    LET k == Len(ctl_pattern) \div 2
        used(idx, n) == (idx + n - 1) % n
    IN  /\ (ctl_op = "start" /\ ctl_ret) =>
              LET u == used(controller.start_idx, Len(controller.start_pos))
              IN  /\ u < k
                  /\ controller.start_pos[u + 1] =
                        ctl_pattern[2 * u + 1] + ctl_pattern[2 * u + 2]
        /\ (ctl_op = "stop" /\ ctl_ret) =>
              LET u == used(controller.stop_idx, Len(controller.stop_pos))
              IN  /\ u < k
                  /\ controller.stop_pos[u + 1] = ctl_pattern[2 * u + 1]

\* C18: a call of Length2DThresholdUP0D at abscissa t answers true exactly
\* when t is not below the recorded value and t minus the recorded value (the
\* t of its previous true answer, 0 if none) is at least length_limit, and it
\* then records t; a call with t below the recorded value resets the recorded
\* value to 0 and answers false; any other call leaves the record alone.
C18_ThresholdSteps ==
    [][(walk' # walk /\ walk'.chain = walk.chain) =>
          LET t == walk'.t
              recorded == threshold.t
          IN  IF t < recorded
                THEN threshold'.t = 0 /\ ~walk'.ret
                ELSE /\ walk'.ret = (2 * (t - recorded) >= threshold.length_limit2)
                     /\ threshold'.t = IF walk'.ret THEN t ELSE recorded]_vars

C18_Witness ==
    /\ walk.chain = 2
    /\ walk.t > 0
    /\ ~walk.ret
    /\ threshold.t = 0
    /\ 2 * walk.t >= threshold.length_limit2

\* The vertices handled so far at which visibility toggled, read off the
\* stroke: visible starts True and a vertex is marked invisible exactly when
\* visible is False after its iteration.
DashToggled(k) == dl_attr[k] # (IF k = 1 THEN TRUE ELSE dl_attr[k - 1])
DashTogglesBefore(k) == {j \in 1..(k - 1) : DashToggled(j)}
DashLastToggle(k) ==
    IF DashTogglesBefore(k) = {} THEN 0
    ELSE DashPos(CHOOSE j \in DashTogglesBefore(k) :
                    \A i \in DashTogglesBefore(k) : i <= j)

\* C19: visibility toggles at a vertex exactly when its position minus the
\* position of the last toggle plus 1.0 exceeds the current pattern entry,
\* where the current entry is the first one at the start and moves to the
\* next one, cyclically, only at a toggle; the stroke starts visible.
C19_ToggleOnCurrentEntry ==
    \A k \in 1..dl_k :
        LET current == dl_self.pattern[
                (Cardinality(DashTogglesBefore(k)) % Len(dl_self.pattern)) + 1]
        IN  DashToggled(k) <=>
                (DashPos(k) - DashLastToggle(k) + 1 > current)

\* C20: FaceMarkBothUP1D called on a ViewEdge never raises; it returns true
\* iff some feature edge from first_fedge on is smooth with face_mark set,
\* or is a non-smooth BORDER edge with face_mark_left set, or is another
\* edge with both face_mark_left and face_mark_right set, and false
\* otherwise; whenever it returns true FaceMarkOneUP1D returns true too.
C20_BothMarks ==
    /\ fm_both # "none" =>
          fm_both = Truth(\E k \in 1..Len(fm_inter.fedges) :
                            LET fe == fm_inter.fedges[k]
                            IN  \/ fe.is_smooth /\ fe.face_mark
                                \/ ~fe.is_smooth /\ fe.border /\ fe.face_mark_left
                                \/ /\ ~fe.is_smooth /\ ~fe.border
                                   /\ fe.face_mark_left /\ fe.face_mark_right)
    /\ (fm_both = "T" /\ fm_one # "none") => fm_one = "T"

\* Stroke s after the first n shaders of the list have shaded it.
RECURSIVE ShadedBy(_, _, _, _)
ShadedBy(shaders, sd, s, n) ==
    IF n = 0 THEN s
    ELSE Shade_call(shaders[n], sd, ShadedBy(shaders, sd, s, n - 1)).stroke

\* C16: a shade() call modifies no field of a shader object, not the Seed
\* counter and no stroke but the one it was given, and every stroke is what
\* the shaders make of it alone, whichever strokes were shaded before it.
C16_NoSharedState ==
    /\ [](\A j \in 1..Len(sh_strokes) :
            sh_strokes[j] =
                ShadedBy(sh_shaders, sh_seed, NewStroke(sh_strokes[j].fes), sh_stage[j]))
    /\ [][/\ sh_shaders' = sh_shaders
          /\ sh_seed' = sh_seed
          /\ \A j \in 1..Len(sh_strokes) :
                sh_stage'[j] = sh_stage[j] => sh_strokes'[j] = sh_strokes[j]]_vars

C16_Witness ==
    /\ Len(sh_strokes) >= 2
    /\ \A j \in 1..Len(sh_strokes) : sh_stage[j] = Len(sh_shaders)
    /\ Len(sh_strokes[1].fes) # Len(sh_strokes[2].fes)
    /\ \E k \in 1..Len(sh_strokes[2].fes) : ~sh_strokes[2].visible[k]
    /\ sh_strokes[1].thickness # NewStroke(sh_strokes[1].fes).thickness

\* C21: set_thickness stores (inner, outer) when the edge is BORDER and the
\* facing test is negative, or when it is not BORDER, is SILHOUETTE and is
\* smooth; it stores (outer, inner) in the other BORDER and SILHOUETTE
\* cases, and the average of the two on both sides for an edge that is
\* neither; an edge that is both BORDER and SILHOUETTE follows the BORDER
\* rule.
C21_StoredThickness ==
    (th_log.done /\ th_log.exc = "none") =>
        LET fe == th_vert.fe
            outer == th_log.split[1]
            inner == th_log.split[2]
            facing == IF th_shader.persp_camera THEN fe.view_dot ELSE fe.normal_left_z
            avg == RDiv(RAdd(outer, inner), Two)
        IN  /\ (fe.border /\ facing < 0) => th_vert.thickness = <<inner, outer>>
            /\ (fe.border /\ ~(facing < 0)) => th_vert.thickness = <<outer, inner>>
            /\ (~fe.border /\ fe.silhouette /\ fe.is_smooth) =>
                  th_vert.thickness = <<inner, outer>>
            /\ (~fe.border /\ fe.silhouette /\ ~fe.is_smooth) =>
                  th_vert.thickness = <<outer, inner>>
            /\ (~fe.border /\ ~fe.silhouette) => th_vert.thickness = <<avg, avg>>

C21_Witness ==
    /\ th_log.done
    /\ th_log.exc = "none"
    /\ th_vert.fe.border
    /\ th_vert.fe.silhouette
    /\ th_vert.fe.is_smooth
    /\ th_shader.persp_camera
    /\ th_vert.fe.view_dot > 0
    /\ th_vert.fe.normal_left_z < 0
    /\ th_log.split[1] # th_log.split[2]
    /\ th_vert.thickness = th_log.split

\* C22: with pivot PARAM and pivot_u in [stroke[0].u, 1], shade() does not
\* raise, whatever the number of vertices; for the bracketing pair prev,
\* svert with prev.u <= pivot_u < svert.u the pivot is prev.point +
\* (pivot_u - prev.u) / (svert.u - prev.u) * (svert.point - prev.point), and
\* with pivot_u at or beyond the last u it is the last vertex's point.
C22_PivotAtParameter ==
    tf_out.done =>
        LET pu == tf_self.pivot_u
            last == tf_stroke[Len(tf_stroke)]
        IN  /\ tf_out.exc = "none"
            /\ \A k \in 2..Len(tf_stroke) :
                  LET prev == tf_stroke[k - 1]
                      svert == tf_stroke[k]
                  IN  (RLeq(prev.u, pu) /\ RLess(pu, svert.u)) =>
                          tf_out.pivot =
                              PAdd(prev.point,
                                   PScale(RDiv(RSub(pu, prev.u), RSub(svert.u, prev.u)),
                                          PSub(svert.point, prev.point)))
            /\ RLeq(last.u, pu) => tf_out.pivot = last.point

\* C23, as claimed: at influence f = 1 the MULTIPLY mode does not reduce to
\* ordinary multiplication: for some v1, v2 the blend differs from v1 * v2.
C23_MultiplyDiffersAtOne ==
    (bl_out.done /\ bl_in.blend = "MULTIPLY" /\ bl_in.influence = One) =>
        \E v1 \in BlendValues, v2 \in BlendValues :
            blend(bl_in.blend, bl_in.influence, v1, v2).value # RMul(v1, v2)

\* C23, amended: the MULTIPLY mode gives (1 - f) * v1 + f * (v1 * v2), the
\* mix of v1 and the product at influence f; at f = 1 it is the ordinary
\* product v1 * v2 for all v1, v2.
C23_MultiplyIsProductAtOne ==
    (bl_out.done /\ bl_in.blend = "MULTIPLY") =>
        /\ bl_out.exc = "none"
        /\ bl_out.value = RAdd(RMul(RSub(One, bl_in.influence), bl_in.v1),
                               RMul(bl_in.influence, RMul(bl_in.v1, bl_in.v2)))
        /\ bl_in.influence = One => bl_out.value = RMul(bl_in.v1, bl_in.v2)

C23_Witness ==
    /\ bl_out.done
    /\ bl_in.blend = "MULTIPLY"
    /\ bl_in.influence = One
    /\ bl_in.v1 = <<-3, 2>>
    /\ bl_in.v2 = <<1, 2>>
    /\ bl_out.value = <<-3, 4>>

\* C24: with linestyle.caps ROUND or SQUARE, process does not abort on the
\* cap shader while it builds the list: when nothing else raised, it goes on
\* to Operators.create with a list that holds the cap shader after every
\* thickness modifier's shader and before the dash shader.
C24_CapShaderAppended ==
    (pc # "start" /\ linestyle.caps \in {"ROUND", "SQUARE"}) =>
        /\ proc_exc # "NameError"
        /\ pc \in {"create", "shade", "done"} =>
              \E i \in 1..Len(shaders_list) :
                  /\ shaders_list[i].group = "caps"
                  /\ \A j \in 1..Len(shaders_list) :
                        /\ shaders_list[j].group = "thickness" => j < i
                        /\ shaders_list[j].group = "dash" => i < j

\* C25: the thickness position handed to the base thickness shader and to
\* every thickness modifier's shader is linestyle.thickness_position when
\* chaining is disabled or is PLAIN with the same-object option; in every
\* other chaining configuration it is CENTER, whatever was configured.
C25_ThicknessPosition ==
    pc \in {"create", "shade", "done"} =>
        /\ Len(positions_passed) =
              1 + Cardinality({i \in 1..Len(shaders_list) :
                                  shaders_list[i].group = "thickness"})
        /\ \A i \in 1..Len(positions_passed) :
              IF ~linestyle.use_chaining THEN
                  positions_passed[i] = linestyle.thickness_position
              ELSE IF linestyle.chaining = "PLAIN" /\ linestyle.use_same_object THEN
                  positions_passed[i] = linestyle.thickness_position
              ELSE positions_passed[i] = "CENTER"

C25_Witness ==
    /\ pc = "done"
    /\ linestyle.use_chaining
    /\ linestyle.chaining = "PLAIN"
    /\ ~linestyle.use_same_object
    /\ linestyle.thickness_position = "RELATIVE"
    /\ positions_passed = <<"CENTER", "CENTER">>

SpecRepeatFair == SpecRepeat /\ WF_vars(NextRepeat)

C28_AnswersAsFresh ==
    tw_walk.t > 0 => tw_ret.used = tw_ret.fresh

\* C29: when the first stop() of a chain is evaluated (after the reset stop()
\* itself makes), the controller is in its initial state: start_len 0,
\* stop_len = sampling, both indices 0, wherever the chain before ended; and
\* start_idx and stop_idx are always valid indices of start_pos and stop_pos.
C29_InitialAtNewChain ==
    /\ dr_new => stop_reset(dr_controller) = Controller_init(dr_controller)
    /\ dr_controller.start_idx \in 0..(Len(dr_controller.start_pos) - 1)
    /\ dr_controller.stop_idx \in 0..(Len(dr_controller.stop_pos) - 1)

=============================================================================
